---- MODULE Spec2Model ----
(***************************************************************************)
(* Document ingestion pipeline of the Gen-AI repository: the agents        *)
(* (parser, summarizer, entity extractor, validation agent) as operators,  *)
(* and the FastAPI handlers over the in-memory documents_store as actions. *)
(*                                                                         *)
(* A Python str is a sequence of one-character strings.                    *)
(***************************************************************************)
EXTENDS Integers, Sequences, FiniteSets, TLC

VARIABLES
    documents_store,  \* routes/documents.py: doc_id -> {filename, text, summary, entities}
    key_order,        \* the keys of documents_store in the order the dict iterates them
    issued,           \* the doc_ids uuid.uuid4() has handed out so far
    pc,               \* per request slot: "idle", "reading" (suspended at await file.read()), "done"
    req,              \* per request slot: the request being handled and its locals
    resp,             \* per request slot: the response sent to the client
    calls,            \* per request slot: the agent calls the handler made, in order
    call,             \* agent-level specification: the agent call being made and its arguments
    ret               \* agent-level specification: what that call returned or raised

vars == <<documents_store, key_order, issued, pc, req, resp, calls, call, ret>>
apiVars == <<documents_store, key_order, issued, pc, req, resp, calls>>
agentVars == <<call, ret>>

-----------------------------------------------------------------------------
(* Bounds of the model *)

\* longest summary string enumerated for validate_summary (6 one-letter tokens need 11)
MaxSummaryLen == 11
\* longest list in one category of an enumerated EntitySet
MaxEntityListLen == 2
\* number of doc_ids uuid.uuid4() can hand out before uploads stop being accepted
MaxDocs == 2
\* number of requests the server handles at a time
MaxReqs == 1
\* how many characters past the content limit the longest enumerated text runs
MaxExcess == 1
\* number of requests in flight at a time where requests are interleaved
MaxWriters == 2
\* length of the longest text chunk_text is applied to
MaxChunkTextLen == 5
\* the largest chunk_size chunk_text is called with
MaxChunkSize == 3
\* number of loop iterations of chunk_text that are followed
MaxIterations == 4

-----------------------------------------------------------------------------
(* Python values *)

\* Python's None, kept apart from every str: its one element is not a character
None == <<"<None>">>

\* the characters str.split() and str.strip() treat as whitespace
Whitespace == {" ", "\t", "\n", "\r"}

\* all strings over alphabet A of length at most n
StringsUpTo(A, n) == UNION {[1..k -> A] : k \in 0..n}

\* length of the longest whitespace-free prefix of s
TokenLen(s) ==
    IF \E i \in 1..Len(s) : s[i] \in Whitespace
    THEN (CHOOSE i \in 1..Len(s) :
              s[i] \in Whitespace /\ \A j \in 1..(i - 1) : s[j] \notin Whitespace) - 1
    ELSE Len(s)

\* str.split() with no argument: the maximal runs of non-whitespace, in order
RECURSIVE Split(_)
Split(s) ==
    IF s = <<>> THEN <<>>
    ELSE IF Head(s) \in Whitespace THEN Split(Tail(s))
    ELSE LET n == TokenLen(s)
         IN  <<SubSeq(s, 1, n)>> \o Split(SubSeq(s, n + 1, Len(s)))

-----------------------------------------------------------------------------
(* backend/agents/validation_agent.py *)

\* faulty variant: >= 5 for > 5
ValidateSummary_AtLeastFive(summary) ==
    summary # None /\ Len(summary) > 0 /\ Len(Split(summary)) >= 5

\* bool(summary and len(summary.split()) > 5)
ValidateSummary(summary) ==
    summary # None /\ Len(summary) > 0 /\ Len(Split(summary)) > 5

\* faulty variant: looks at names alone
ValidateEntities_NamesOnly(entities) ==
    Len(entities["names"]) > 0

\* any(len(v) > 0 for v in entities.values())
ValidateEntities(entities) ==
    \E k \in DOMAIN entities : Len(entities[k]) > 0

\* faulty variant: the message is "Summary rolled back."
RollbackSummary_Short ==
    <<"S","u","m","m","a","r","y"," ","r","o","l","l","e","d"," ","b","a","c","k",".">>

\* "Summary rolled back due to low quality."
RollbackSummary ==
    <<"S","u","m","m","a","r","y"," ","r","o","l","l","e","d"," ","b","a","c","k"," ",
      "d","u","e"," ","t","o"," ","l","o","w"," ","q","u","a","l","i","t","y",".">>

\* "Entities rolled back due to low confidence."
RollbackEntities ==
    <<"E","n","t","i","t","i","e","s"," ","r","o","l","l","e","d"," ","b","a","c","k"," ",
      "d","u","e"," ","t","o"," ","l","o","w"," ","c","o","n","f","i","d","e","n","c","e",".">>

-----------------------------------------------------------------------------
(* Strings *)

\* s.endswith(suffix)
EndsWith(s, suffix) ==
    /\ Len(s) >= Len(suffix)
    /\ SubSeq(s, Len(s) - Len(suffix) + 1, Len(s)) = suffix

\* s.startswith(prefix)
StartsWith(s, prefix) ==
    /\ Len(s) >= Len(prefix)
    /\ SubSeq(s, 1, Len(prefix)) = prefix

\* needle in s
Contains(s, needle) ==
    \E i \in 1..(Len(s) - Len(needle) + 1) : SubSeq(s, i, i + Len(needle) - 1) = needle

\* s[:n]
Take(s, n) == SubSeq(s, 1, IF Len(s) < n THEN Len(s) ELSE n)

\* s.lstrip()
RECURSIVE LStrip(_)
LStrip(s) ==
    IF s # <<>> /\ Head(s) \in Whitespace THEN LStrip(Tail(s)) ELSE s

\* s.rstrip()
RECURSIVE RStrip(_)
RStrip(s) ==
    IF s # <<>> /\ s[Len(s)] \in Whitespace THEN RStrip(SubSeq(s, 1, Len(s) - 1)) ELSE s

\* s.strip()
Strip(s) == RStrip(LStrip(s))

\* sep.join(parts)
RECURSIVE Join(_, _)
Join(sep, parts) ==
    IF parts = <<>> THEN <<>>
    ELSE IF Len(parts) = 1 THEN parts[1]
    ELSE parts[1] \o sep \o Join(sep, Tail(parts))

-----------------------------------------------------------------------------
(* Exceptions: a raised exception is its class and str(e) *)

\* requests.exceptions.RequestException and the subclasses of it that occur here
RequestExceptionClasses ==
    {"RequestException", "ConnectionError", "Timeout", "ReadTimeout", "ConnectTimeout",
     "MissingSchema", "InvalidJSONError", "RequestsJSONDecodeError"}

\* the classes `except Exception` catches
ExceptionClasses ==
    RequestExceptionClasses
        \cup {"Exception", "KeyError", "IndexError", "TypeError", "AttributeError",
              "ValueError", "JSONDecodeError", "RuntimeError", "FileNotFoundError",
              "UnicodeDecodeError", "PackageNotFoundError", "FileDataError",
              "DocumentParsingError", "UnsupportedFileFormatError", "ProcessingError"}

-----------------------------------------------------------------------------
(* backend/agents/parser_agent.py *)

PdfSuffix == <<".","p","d","f">>
DocxSuffix == <<".","d","o","c","x">>
HtmlSuffix == <<".","h","t","m","l">>

\* "Failed parsing PDF: "
FailedParsingPdf ==
    <<"F","a","i","l","e","d"," ","p","a","r","s","i","n","g"," ","P","D","F",":"," ">>
\* "Failed parsing DOCX: "
FailedParsingDocx ==
    <<"F","a","i","l","e","d"," ","p","a","r","s","i","n","g"," ","D","O","C","X",":"," ">>
\* "Failed parsing HTML: "
FailedParsingHtml ==
    <<"F","a","i","l","e","d"," ","p","a","r","s","i","n","g"," ","H","T","M","L",":"," ">>
\* "Unsupported file: "
UnsupportedFile ==
    <<"U","n","s","u","p","p","o","r","t","e","d"," ","f","i","l","e",":"," ">>

(* The file at a path is what the format library makes of it: either it fails *)
(* with an exception (missing or corrupt file, decode error), or it yields    *)
(* the file's parts in order: page texts (PDF), paragraph texts (DOCX), text  *)
(* nodes (HTML).                                                              *)

\* what a parser method returns or raises; branch and opened record the path taken
Returned(branch, text) ==
    [raised |-> FALSE, cls |-> "", msg |-> <<>>, value |-> text,
     branch |-> branch, opened |-> TRUE]

Raised(branch, opened, cls, msg) ==
    [raised |-> TRUE, cls |-> cls, msg |-> msg, value |-> <<>>,
     branch |-> branch, opened |-> opened]

\* the body of a format branch under its `except Exception as e` handler
WrapParsingError(branch, prefix, file, text) ==
    IF file.fails
    THEN IF file.cls \in ExceptionClasses
         THEN Raised(branch, TRUE, "DocumentParsingError", prefix \o file.msg)
         ELSE Raised(branch, TRUE, file.cls, file.msg)
    ELSE Returned(branch, text)

\* text += page.get_text("text") + "\n" for every page
RECURSIVE PdfPagesText(_)
PdfPagesText(pages) ==
    IF pages = <<>> THEN <<>>
    ELSE Head(pages) \o <<"\n">> \o PdfPagesText(Tail(pages))

ParsePdf(file) ==
    WrapParsingError("pdf", FailedParsingPdf, file, Strip(PdfPagesText(file.parts)))

\* [p.text for p in doc.paragraphs if p.text]
RECURSIVE NonEmptyParagraphs(_)
NonEmptyParagraphs(paragraphs) ==
    IF paragraphs = <<>> THEN <<>>
    ELSE IF Head(paragraphs) # <<>>
         THEN <<Head(paragraphs)>> \o NonEmptyParagraphs(Tail(paragraphs))
         ELSE NonEmptyParagraphs(Tail(paragraphs))

ParseDocx(file) ==
    WrapParsingError("docx", FailedParsingDocx, file,
                     Join(<<"\n">>, NonEmptyParagraphs(file.parts)))

\* faulty variant: no try/except around the HTML branch
ParseHtml_Unguarded(file) ==
    IF file.fails THEN Raised("html", TRUE, file.cls, file.msg)
    ELSE Returned("html", Join(<<"\n">>, file.parts))

\* soup.get_text(separator="\n")
ParseHtml(file) ==
    WrapParsingError("html", FailedParsingHtml, file, Join(<<"\n">>, file.parts))

\* faulty variant: `".pdf" in file_path` for file_path.endswith(".pdf")
Parse_BySubstring(file_path, file) ==
    IF Contains(file_path, PdfSuffix) THEN ParsePdf(file)
    ELSE IF Contains(file_path, DocxSuffix) THEN ParseDocx(file)
    ELSE IF Contains(file_path, HtmlSuffix) THEN ParseHtml(file)
    ELSE Raised("none", FALSE, "UnsupportedFileFormatError", UnsupportedFile \o file_path)

\* ParserAgent.parse
Parse(file_path, file) ==
    IF EndsWith(file_path, PdfSuffix) THEN ParsePdf(file)
    ELSE IF EndsWith(file_path, DocxSuffix) THEN ParseDocx(file)
    ELSE IF EndsWith(file_path, HtmlSuffix) THEN ParseHtml(file)
    ELSE Raised("none", FALSE, "UnsupportedFileFormatError", UnsupportedFile \o file_path)

-----------------------------------------------------------------------------
(* backend/agents/summarizer_agent.py *)

\* user_content[:4000]
SummarizerContentLimit == 4000
\* "max_tokens": 500
SummarizerMaxTokens == 500
\* timeout=30
SummarizerTimeout == 30

\* "You are a document summarization agent."
SummarizerSystemPrompt ==
    <<"Y","o","u"," ","a","r","e"," ","a"," ","d","o","c","u","m","e","n","t"," ",
      "s","u","m","m","a","r","i","z","a","t","i","o","n"," ","a","g","e","n","t",".">>

\* "Summarization failed: "
SummarizationFailed ==
    <<"S","u","m","m","a","r","i","z","a","t","i","o","n"," ","f","a","i","l","e","d",":"," ">>
\* "Summarization failed due to network error: "
SummarizationNetworkError ==
    <<"S","u","m","m","a","r","i","z","a","t","i","o","n"," ","f","a","i","l","e","d"," ",
      "d","u","e"," ","t","o"," ","n","e","t","w","o","r","k"," ","e","r","r","o","r",":"," ">>
\* "Summarization failed due to unexpected error: "
SummarizationUnexpectedError ==
    <<"S","u","m","m","a","r","i","z","a","t","i","o","n"," ","f","a","i","l","e","d"," ",
      "d","u","e"," ","t","o"," ","u","n","e","x","p","e","c","t","e","d"," ",
      "e","r","r","o","r",":"," ">>
\* "No summary generated."
NoSummaryGenerated ==
    <<"N","o"," ","s","u","m","m","a","r","y"," ","g","e","n","e","r","a","t","e","d",".">>
\* "Provide a section-wise summary of this document:\n"
SummarizeDocumentPrompt ==
    <<"P","r","o","v","i","d","e"," ","a"," ","s","e","c","t","i","o","n","-","w","i","s","e"," ",
      "s","u","m","m","a","r","y"," ","o","f"," ","t","h","i","s"," ",
      "d","o","c","u","m","e","n","t",":","\n">>

(* What the upstream does with one requests.post: it raises (kind "raise":   *)
(* cls, msg), or it answers (kind "response": status_code, text) and, for a  *)
(* 200, the body has a shape: "chat" (choices[0].message.content is the str  *)
(* content), or a malformed one for which                                    *)
(* resp.json()["choices"][0]["message"]["content"].strip() raises cls, msg.  *)

\* what the body of the try block yields: a value, or an exception
TryValue(v) == [raised |-> FALSE, cls |-> "", msg |-> <<>>, value |-> v]
TryRaise(cls, msg) == [raised |-> TRUE, cls |-> cls, msg |-> msg, value |-> <<>>]

\* the try block of _call_llm
CallLlmTry(upstream) ==
    IF upstream.kind = "raise" THEN TryRaise(upstream.cls, upstream.msg)
    ELSE IF upstream.status_code = 200
         THEN IF upstream.shape = "chat"
              THEN LET output == Strip(upstream.content)
                   IN  TryValue(IF output # <<>> THEN output ELSE NoSummaryGenerated)
              ELSE TryRaise(upstream.cls, upstream.msg)
         ELSE TryValue(SummarizationFailed \o upstream.text)

\* faulty variant: the content is forwarded whole
CallLlmRequest_Untruncated(user_content) ==
    [system |-> SummarizerSystemPrompt,
     user |-> user_content,
     max_tokens |-> SummarizerMaxTokens,
     timeout |-> SummarizerTimeout]

\* the request _call_llm posts
CallLlmRequest(user_content) ==
    [system |-> SummarizerSystemPrompt,
     user |-> Take(user_content, SummarizerContentLimit),
     max_tokens |-> SummarizerMaxTokens,
     timeout |-> SummarizerTimeout]

\* the requests.post calls one _call_llm makes, in order
CallLlmPosts(user_content) == <<CallLlmRequest(user_content)>>

\* faulty variant: no except clause, the failure propagates
CallLlm_Propagates(user_content, upstream) == CallLlmTry(upstream)

\* SummarizerAgent._call_llm: the try block under its two except clauses
CallLlm(user_content, upstream) ==
    LET t == CallLlmTry(upstream)
    IN  IF ~t.raised THEN t
        ELSE IF t.cls \in RequestExceptionClasses
             THEN TryValue(SummarizationNetworkError \o t.msg)
        ELSE IF t.cls \in ExceptionClasses
             THEN TryValue(SummarizationUnexpectedError \o t.msg)
        ELSE t

\* f"Provide a section-wise summary of this document:\n{text}"
SummarizeDocumentContent(text) == SummarizeDocumentPrompt \o text

\* SummarizerAgent.summarize_document
SummarizeDocument(text, upstream) ==
    CallLlm(SummarizeDocumentContent(text), upstream)

\* "Summarize this section:\n"
SummarizeSectionPrompt ==
    <<"S","u","m","m","a","r","i","z","e"," ","t","h","i","s"," ","s","e","c","t","i","o",
      "n",":","\n">>
\* "Summarize across documents:\n"
SummarizeCorpusPrompt ==
    <<"S","u","m","m","a","r","i","z","e"," ","a","c","r","o","s","s"," ","d","o","c","u",
      "m","e","n","t","s",":","\n">>
\* "\n\n"
CorpusSeparator ==
    <<"\n","\n">>

\* f"Summarize this section:\n{text}"
SummarizeSectionContent(text) == SummarizeSectionPrompt \o text

\* SummarizerAgent.summarize_section
SummarizeSection(text, upstream) ==
    CallLlm(SummarizeSectionContent(text), upstream)

\* faulty variant: the documents are joined by a single newline
SummarizeCorpusContent_SingleNewline(texts) ==
    SummarizeCorpusPrompt \o Join(<<"\n">>, texts)

\* joined = "\n\n".join(texts); f"Summarize across documents:\n{joined}"
SummarizeCorpusContent(texts) ==
    SummarizeCorpusPrompt \o Join(CorpusSeparator, texts)

\* SummarizerAgent.summarize_corpus
SummarizeCorpus(texts, upstream) ==
    CallLlm(SummarizeCorpusContent(texts), upstream)

-----------------------------------------------------------------------------
(* backend/agents/entity_agent.py *)

Upper == {"A","B","C","D","E","F","G","H","I","J","K","L","M",
          "N","O","P","Q","R","S","T","U","V","W","X","Y","Z"}
Lower == {"a","b","c","d","e","f","g","h","i","j","k","l","m",
          "n","o","p","q","r","s","t","u","v","w","x","y","z"}
Digit == {"0","1","2","3","4","5","6","7","8","9"}
\* \w
WordChar == Upper \cup Lower \cup Digit \cup {"_"}

\* whether s[i] exists and is a \w character
IsWordAt(s, i) == i >= 1 /\ i <= Len(s) /\ s[i] \in WordChar

\* \b between s[i-1] and s[i]
WordBoundary(s, i) == IsWordAt(s, i - 1) # IsWordAt(s, i)

\* the first index from i on whose character is not in class (Len(s) + 1 if none)
RECURSIVE RunEnd(_, _, _)
RunEnd(s, i, class) ==
    IF i <= Len(s) /\ s[i] \in class THEN RunEnd(s, i + 1, class) ELSE i

\* s[i:] starts with lit
LiteralAt(s, i, lit) ==
    /\ i + Len(lit) - 1 <= Len(s)
    /\ SubSeq(s, i, i + Len(lit) - 1) = lit

(* Each pattern below has one way to match at a position: a greedy run that  *)
(* gives a character back is followed by a character of the run's own class, *)
(* which neither the next literal nor \b accepts. MatchEnd is the index      *)
(* after the match at i, or 0 when the pattern does not match at i.          *)

\* \b[A-Z][a-z]+ [A-Z][a-z]+\b
NameMatchEnd(s, i) ==
    LET j == RunEnd(s, i + 1, Lower)
        k == RunEnd(s, j + 2, Lower)
    IN  IF /\ WordBoundary(s, i)
           /\ i <= Len(s) /\ s[i] \in Upper
           /\ j > i + 1
           /\ LiteralAt(s, j, <<" ">>)
           /\ j + 1 <= Len(s) /\ s[j + 1] \in Upper
           /\ k > j + 2
           /\ WordBoundary(s, k)
        THEN k ELSE 0

\* faulty variant: the year has four digits
DateMatchEnd_FourDigitYear(s, i) ==
    LET a == RunEnd(s, i, Digit)
        b == RunEnd(s, a + 1, Digit)
        c == RunEnd(s, b + 1, Digit)
    IN  IF /\ WordBoundary(s, i)
           /\ a - i \in {1, 2}
           /\ a <= Len(s) /\ s[a] \in {"-", "/"}
           /\ b - (a + 1) \in {1, 2}
           /\ b <= Len(s) /\ s[b] \in {"-", "/"}
           /\ c - (b + 1) = 4
           /\ WordBoundary(s, c)
        THEN c ELSE 0

\* \b\d{1,2}[-/]\d{1,2}[-/]\d{2,4}\b
DateMatchEnd(s, i) ==
    LET a == RunEnd(s, i, Digit)
        b == RunEnd(s, a + 1, Digit)
        c == RunEnd(s, b + 1, Digit)
    IN  IF /\ WordBoundary(s, i)
           /\ a - i \in {1, 2}
           /\ a <= Len(s) /\ s[a] \in {"-", "/"}
           /\ b - (a + 1) \in {1, 2}
           /\ b <= Len(s) /\ s[b] \in {"-", "/"}
           /\ c - (b + 1) \in {2, 3, 4}
           /\ WordBoundary(s, c)
        THEN c ELSE 0

\* the alternatives of (?: Corp| Inc| Ltd| University), in order
OrgSuffixes ==
    << <<" ","C","o","r","p">>, <<" ","I","n","c">>, <<" ","L","t","d">>,
       <<" ","U","n","i","v","e","r","s","i","t","y">> >>

\* \b[A-Z][A-Za-z]+(?: Corp| Inc| Ltd| University)\b
OrgMatchEnd(s, i) ==
    LET j == RunEnd(s, i + 1, Upper \cup Lower)
        hits == {n \in 1..Len(OrgSuffixes) :
                    /\ LiteralAt(s, j, OrgSuffixes[n])
                    /\ WordBoundary(s, j + Len(OrgSuffixes[n]))}
    IN  IF /\ WordBoundary(s, i)
           /\ i <= Len(s) /\ s[i] \in Upper
           /\ j > i + 1
           /\ hits # {}
        THEN j + Len(OrgSuffixes[CHOOSE n \in hits : \A m \in hits : n <= m])
        ELSE 0

MatchEnd(pattern, s, i) ==
    CASE pattern = "names" -> NameMatchEnd(s, i)
      [] pattern = "dates" -> DateMatchEnd(s, i)
      [] pattern = "organizations" -> OrgMatchEnd(s, i)

\* re.findall(pattern, s): leftmost non-overlapping matches, scanning from i
RECURSIVE FindAll(_, _, _)
FindAll(pattern, s, i) ==
    IF i > Len(s) THEN <<>>
    ELSE LET e == MatchEnd(pattern, s, i)
         IN  IF e > 0 THEN <<SubSeq(s, i, e - 1)>> \o FindAll(pattern, s, e)
             ELSE FindAll(pattern, s, i + 1)

\* set(matches)
SetOf(matches) == {matches[n] : n \in 1..Len(matches)}

\* list(a_set): the elements once each, in an order the hash seed decides
ListsOf(S) ==
    {l \in [1..Cardinality(S) -> S] : \A x \in S : \E n \in DOMAIN l : l[n] = x}

\* faulty variant: the matches are returned as found, repeats included
Extract_KeepsRepeats(text) ==
    {[names |-> FindAll("names", text, 1), dates |-> FindAll("dates", text, 1),
      organizations |-> FindAll("organizations", text, 1)]}

\* EntityAgent.extract: every result the call can return for text
Extract(text) ==
    {[names |-> n, dates |-> d, organizations |-> o] :
        n \in ListsOf(SetOf(FindAll("names", text, 1))),
        d \in ListsOf(SetOf(FindAll("dates", text, 1))),
        o \in ListsOf(SetOf(FindAll("organizations", text, 1)))}

\* str(n) of a non-negative int
RECURSIVE DecimalStr(_)
DecimalStr(n) ==
    LET digit == <<"0","1","2","3","4","5","6","7","8","9">>[(n % 10) + 1]
    IN  IF n < 10 THEN <<digit>> ELSE DecimalStr(n \div 10) \o <<digit>>

\* repr of a str without quotes, backslashes or control characters
StrRepr(s) == <<"'">> \o s \o <<"'">>

RECURSIVE ReprList(_)
ReprList(items) ==
    IF items = <<>> THEN <<>>
    ELSE <<StrRepr(Head(items))>> \o ReprList(Tail(items))

\* str(a_list) of strs
ListRepr(items) == <<"[">> \o Join(<<",", " ">>, ReprList(items)) \o <<"]">>

\* f"{entities}" of the dict extract builds: its keys in insertion order
EntitiesRepr(entities) ==
    <<"{">> \o <<"'","n","a","m","e","s","'",":"," ">> \o ListRepr(entities.names)
        \o <<",", " ">> \o <<"'","d","a","t","e","s","'",":"," ">> \o ListRepr(entities.dates)
        \o <<",", " ">>
        \o <<"'","o","r","g","a","n","i","z","a","t","i","o","n","s","'",":"," ">>
        \o ListRepr(entities.organizations) \o <<"}">>

\* text[:3000]
EntityContentLimit == 3000
\* "max_tokens": 200
EntityMaxTokens == 200
\* timeout=30
EntityTimeout == 30

\* "You are an entity validation assistant. Check if the extracted entities are correct and relevant to the given text."
EntitySystemPrompt ==
    <<"Y","o","u"," ","a","r","e"," ","a","n"," ","e","n","t","i","t","y"," ","v","a","l",
      "i","d","a","t","i","o","n"," ","a","s","s","i","s","t","a","n","t","."," ","C","h",
      "e","c","k"," ","i","f"," ","t","h","e"," ","e","x","t","r","a","c","t","e","d"," ",
      "e","n","t","i","t","i","e","s"," ","a","r","e"," ","c","o","r","r","e","c","t"," ",
      "a","n","d"," ","r","e","l","e","v","a","n","t"," ","t","o"," ","t","h","e"," ","g",
      "i","v","e","n"," ","t","e","x","t",".">>
\* "Check if these entities are correct for the text:\n"
EntityCheckLabel ==
    <<"C","h","e","c","k"," ","i","f"," ","t","h","e","s","e"," ","e","n","t","i","t","i",
      "e","s"," ","a","r","e"," ","c","o","r","r","e","c","t"," ","f","o","r"," ","t","h",
      "e"," ","t","e","x","t",":","\n">>
\* "\nEntities: "
EntityListLabel ==
    <<"\n","E","n","t","i","t","i","e","s",":"," ">>
\* "Entity validation failed: HTTP "
EntityValidationFailedHttp ==
    <<"E","n","t","i","t","y"," ","v","a","l","i","d","a","t","i","o","n"," ","f","a","i",
      "l","e","d",":"," ","H","T","T","P"," ">>
\* "Entity validation failed due to network error: "
EntityValidationNetworkError ==
    <<"E","n","t","i","t","y"," ","v","a","l","i","d","a","t","i","o","n"," ","f","a","i",
      "l","e","d"," ","d","u","e"," ","t","o"," ","n","e","t","w","o","r","k"," ","e","r",
      "r","o","r",":"," ">>
\* "Entity validation failed due to unexpected error: "
EntityValidationUnexpectedError ==
    <<"E","n","t","i","t","y"," ","v","a","l","i","d","a","t","i","o","n"," ","f","a","i",
      "l","e","d"," ","d","u","e"," ","t","o"," ","u","n","e","x","p","e","c","t","e","d",
      " ","e","r","r","o","r",":"," ">>

\* the request EntityAgent.validate_entities posts
EntityValidationRequest(text, entities) ==
    [system |-> EntitySystemPrompt,
     user |-> EntityCheckLabel \o Take(text, EntityContentLimit) \o EntityListLabel
                  \o EntitiesRepr(entities),
     max_tokens |-> EntityMaxTokens,
     timeout |-> EntityTimeout]

\* the requests.post calls one validate_entities makes, in order
EntityValidationPosts(text, entities) == <<EntityValidationRequest(text, entities)>>

\* the try block of EntityAgent.validate_entities
EntityValidationTry(upstream) ==
    IF upstream.kind = "raise" THEN TryRaise(upstream.cls, upstream.msg)
    ELSE IF upstream.status_code = 200
         THEN IF upstream.shape = "chat"
              THEN TryValue(Strip(upstream.content))
              ELSE TryRaise(upstream.cls, upstream.msg)
         ELSE TryValue(EntityValidationFailedHttp \o DecimalStr(upstream.status_code))

\* the two except clauses of validate_entities, applied to what its try block yields
EntityValidationExcept(t) ==
    IF ~t.raised THEN t
    ELSE IF t.cls \in RequestExceptionClasses
         THEN TryValue(EntityValidationNetworkError \o t.msg)
    ELSE IF t.cls \in ExceptionClasses
         THEN TryValue(EntityValidationUnexpectedError \o t.msg)
    ELSE t

\* EntityAgent.validate_entities: the try block under its two except clauses
EntityValidation(text, entities, upstream) ==
    EntityValidationExcept(EntityValidationTry(upstream))

\* faulty variant: a verdict of the model empties the names it was asked about
EntitiesAfterValidation_Applied(entities, upstream) ==
    IF upstream.kind = "response" /\ upstream.status_code = 200
    THEN [entities EXCEPT !.names = <<>>]
    ELSE entities

\* the dict passed to validate_entities as the call leaves it: the method
\* formats it into the prompt and assigns nothing to it
EntitiesAfterValidation(entities, upstream) == entities

-----------------------------------------------------------------------------
(* backend/agents/qa_agent.py *)

\* doc_text[:4000]
QaContentLimit == 4000
\* "max_tokens": 300
QaMaxTokens == 300
\* timeout=30
QaTimeout == 30

\* "You are a Q&A assistant. Answer based only on the provided document. If the answer is not in the document, say so clearly."
QaSystemPrompt ==
    <<"Y","o","u"," ","a","r","e"," ","a"," ","Q","&","A"," ","a","s","s","i","s","t","a",
      "n","t","."," ","A","n","s","w","e","r"," ","b","a","s","e","d"," ","o","n","l","y",
      " ","o","n"," ","t","h","e"," ","p","r","o","v","i","d","e","d"," ","d","o","c","u",
      "m","e","n","t","."," ","I","f"," ","t","h","e"," ","a","n","s","w","e","r"," ","i",
      "s"," ","n","o","t"," ","i","n"," ","t","h","e"," ","d","o","c","u","m","e","n","t",
      ","," ","s","a","y"," ","s","o"," ","c","l","e","a","r","l","y",".">>
\* "Document:\n"
QaDocumentLabel ==
    <<"D","o","c","u","m","e","n","t",":","\n">>
\* "\n\nQuestion: "
QaQuestionLabel ==
    <<"\n","\n","Q","u","e","s","t","i","o","n",":"," ">>
\* "No question provided."
NoQuestionProvided ==
    <<"N","o"," ","q","u","e","s","t","i","o","n"," ","p","r","o","v","i","d","e","d",".">>
\* "No document content available."
NoDocumentContent ==
    <<"N","o"," ","d","o","c","u","m","e","n","t"," ","c","o","n","t","e","n","t"," ","a",
      "v","a","i","l","a","b","l","e",".">>
\* "No relevant answer found."
NoRelevantAnswer ==
    <<"N","o"," ","r","e","l","e","v","a","n","t"," ","a","n","s","w","e","r"," ","f","o",
      "u","n","d",".">>
\* "Q&A failed: HTTP "
QaFailedHttp ==
    <<"Q","&","A"," ","f","a","i","l","e","d",":"," ","H","T","T","P"," ">>
\* " - "
QaFailedSeparator ==
    <<" ","-"," ">>
\* "Q&A failed due to network error: "
QaNetworkError ==
    <<"Q","&","A"," ","f","a","i","l","e","d"," ","d","u","e"," ","t","o"," ","n","e","t",
      "w","o","r","k"," ","e","r","r","o","r",":"," ">>
\* "Q&A failed due to unexpected error: "
QaUnexpectedError ==
    <<"Q","&","A"," ","f","a","i","l","e","d"," ","d","u","e"," ","t","o"," ","u","n","e",
      "x","p","e","c","t","e","d"," ","e","r","r","o","r",":"," ">>

\* the request QAAgent.ask posts
AskRequest(question, doc_text) ==
    [system |-> QaSystemPrompt,
     user |-> QaDocumentLabel \o Take(doc_text, QaContentLimit) \o QaQuestionLabel
                  \o question,
     max_tokens |-> QaMaxTokens,
     timeout |-> QaTimeout]

\* faulty variant: the document is checked without strip()
AskRejection_RawDocument(question, doc_text) ==
    IF Strip(question) = <<>> THEN NoQuestionProvided
    ELSE IF doc_text = <<>> THEN NoDocumentContent
    ELSE None

\* the two input checks of ask: the sentinel returned, or None when both pass
AskRejection(question, doc_text) ==
    IF Strip(question) = <<>> THEN NoQuestionProvided
    ELSE IF Strip(doc_text) = <<>> THEN NoDocumentContent
    ELSE None

\* the requests.post calls one ask makes, in order
AskPosts(question, doc_text) ==
    IF AskRejection(question, doc_text) # None THEN <<>>
    ELSE <<AskRequest(question, doc_text)>>

\* faulty variant: the answer is returned as it came, blank or not
AskTry_NoSentinel(upstream) ==
    IF upstream.kind = "raise" THEN TryRaise(upstream.cls, upstream.msg)
    ELSE IF upstream.status_code = 200
         THEN IF upstream.shape = "chat"
              THEN TryValue(Strip(upstream.content))
              ELSE TryRaise(upstream.cls, upstream.msg)
         ELSE TryValue(QaFailedHttp \o DecimalStr(upstream.status_code)
                           \o QaFailedSeparator \o upstream.text)

\* the try block of ask
AskTry(upstream) ==
    IF upstream.kind = "raise" THEN TryRaise(upstream.cls, upstream.msg)
    ELSE IF upstream.status_code = 200
         THEN IF upstream.shape = "chat"
              THEN LET ans == Strip(upstream.content)
                   IN  TryValue(IF ans # <<>> THEN ans ELSE NoRelevantAnswer)
              ELSE TryRaise(upstream.cls, upstream.msg)
         ELSE TryValue(QaFailedHttp \o DecimalStr(upstream.status_code)
                           \o QaFailedSeparator \o upstream.text)

\* the two except clauses of ask, applied to what its try block yields
AskExcept(t) ==
    IF ~t.raised THEN t
    ELSE IF t.cls \in RequestExceptionClasses
         THEN TryValue(QaNetworkError \o t.msg)
    ELSE IF t.cls \in ExceptionClasses
         THEN TryValue(QaUnexpectedError \o t.msg)
    ELSE t

\* QAAgent.ask
Ask(question, doc_text, upstream) ==
    IF AskRejection(question, doc_text) # None
    THEN TryValue(AskRejection(question, doc_text))
    ELSE AskExcept(AskTry(upstream))

-----------------------------------------------------------------------------
(* backend/agents/critic_agent.py *)

\* "max_tokens": 300
CriticMaxTokens == 300

\* "You are a critic. Check for bias, completeness, and sensitive info."
CriticSystemPrompt ==
    <<"Y","o","u"," ","a","r","e"," ","a"," ","c","r","i","t","i","c","."," ","C","h","e",
      "c","k"," ","f","o","r"," ","b","i","a","s",","," ","c","o","m","p","l","e","t","e",
      "n","e","s","s",","," ","a","n","d"," ","s","e","n","s","i","t","i","v","e"," ","i",
      "n","f","o",".">>
\* "Review this summary:\n"
ReviewSummaryLabel ==
    <<"R","e","v","i","e","w"," ","t","h","i","s"," ","s","u","m","m","a","r","y",":","\n">>

\* the request CriticAgent.review_summary posts: no timeout is passed
ReviewSummaryRequest(summary) ==
    [system |-> CriticSystemPrompt,
     user |-> ReviewSummaryLabel \o summary,
     max_tokens |-> CriticMaxTokens]

\* the requests.post calls one review_summary makes, in order
ReviewSummaryPosts(summary) == <<ReviewSummaryRequest(summary)>>

\* CriticAgent.review_summary: no try block, what requests.post or
\* resp.json()[...] raises leaves the method
ReviewSummary(summary, upstream) ==
    IF upstream.kind = "raise" THEN TryRaise(upstream.cls, upstream.msg)
    ELSE IF upstream.status_code = 200
         THEN IF upstream.shape = "chat"
              THEN TryValue([status |-> "reviewed",
                             critic_notes |-> Strip(upstream.content)])
              ELSE TryRaise(upstream.cls, upstream.msg)
         ELSE TryValue([status |-> "failed", reason |-> upstream.text])

-----------------------------------------------------------------------------
(* backend/services/embedding_service.py: chunk_text *)

\* a slice bound as Python reads it for a str of length n: negative bounds
\* count from the end, and bounds outside the str are clipped
SliceBound(i, n) ==
    IF i < 0 THEN (IF i + n < 0 THEN 0 ELSE i + n) ELSE IF i > n THEN n ELSE i

\* s[start:end]
Slice(s, start, end) == SubSeq(s, SliceBound(start, Len(s)) + 1, SliceBound(end, Len(s)))

\* s.rfind(ch, start, end): the highest index in the slice holding ch, or -1
RFind(s, ch, start, end) ==
    LET hits == {k \in SliceBound(start, Len(s))..(SliceBound(end, Len(s)) - 1) :
                    s[k + 1] = ch}
    IN  IF hits = {} THEN -1 ELSE CHOOSE k \in hits : \A h \in hits : h <= k

\* max(a, b, c)
Max3(a, b, c) == CHOOSE m \in {a, b, c} : \A x \in {a, b, c} : x <= m

\* end as lines 148 to 165 leave it
ChunkEnd(text, start, chunk_size) ==
    LET end == start + chunk_size
        sentence_end == Max3(RFind(text, ".", start, end), RFind(text, "!", start, end),
                             RFind(text, "?", start, end))
        word_end == RFind(text, " ", start, end)
    IN  IF end < Len(text)
        THEN IF sentence_end > start THEN sentence_end + 1
             ELSE IF word_end > start THEN word_end
             ELSE end
        ELSE end

\* start = end - overlap if end < len(text) else end
NextStart(text, start, end, overlap) ==
    IF end < Len(text) THEN end - overlap ELSE end

-----------------------------------------------------------------------------
(* backend/utils/helpers.py: log_agent_action, and the agent methods with    *)
(* the call they make to it                                                  *)

\* what the LangSmith client does with create_run: there is no client, it
\* accepts the run, or it raises
NoClient == [client |-> FALSE, raises |-> FALSE, cls |-> "", msg |-> <<>>]
SinkAccepts == [client |-> TRUE, raises |-> FALSE, cls |-> "", msg |-> <<>>]
SinkRaises(cls, msg) == [client |-> TRUE, raises |-> TRUE, cls |-> cls, msg |-> msg]

\* faulty variant: create_run is called outside any try
LogAgentAction_NoTry(sink) ==
    IF sink.client /\ sink.raises THEN TryRaise(sink.cls, sink.msg) ELSE TryValue(None)

\* log_agent_action: create_run under `except Exception`, when there is a client
LogAgentAction(sink) ==
    IF sink.client /\ sink.raises /\ sink.cls \notin ExceptionClasses
    THEN TryRaise(sink.cls, sink.msg)
    ELSE TryValue(None)

\* x = ...; log_agent_action(...); return x
ThenLog(result, sink) ==
    IF result.raised THEN result
    ELSE LET logged == LogAgentAction(sink)
         IN  IF logged.raised
             THEN [result EXCEPT !.raised = TRUE, !.cls = logged.cls, !.msg = logged.msg,
                                 !.value = <<>>]
             ELSE result

\* the upstream answered 200 with a chat completion: the branch that logs
Answered200(upstream) ==
    upstream.kind = "response" /\ upstream.status_code = 200 /\ upstream.shape = "chat"

\* ValidationAgent.validate_summary with its log call
ValidateSummaryLogged(summary, sink) == ThenLog(TryValue(ValidateSummary(summary)), sink)

\* ValidationAgent.validate_entities with its log call
ValidateEntitiesLogged(entities, sink) == ThenLog(TryValue(ValidateEntities(entities)), sink)

\* ValidationAgent.rollback_summary with its log call
RollbackSummaryLogged(sink) == ThenLog(TryValue(RollbackSummary), sink)

\* ParserAgent.parse with its log call
ParseLogged(file_path, file, sink) == ThenLog(Parse(file_path, file), sink)

\* EntityAgent.extract with its log call: every result the call can give
ExtractLogged(text, sink) == {ThenLog(TryValue(e), sink) : e \in Extract(text)}

\* SummarizerAgent.summarize_document with its log call
SummarizeDocumentLogged(text, upstream, sink) ==
    ThenLog(SummarizeDocument(text, upstream), sink)

\* QAAgent.ask with its log call, which is inside the try block
AskLogged(question, doc_text, upstream, sink) ==
    IF AskRejection(question, doc_text) # None
    THEN TryValue(AskRejection(question, doc_text))
    ELSE AskExcept(IF Answered200(upstream) THEN ThenLog(AskTry(upstream), sink)
                   ELSE AskTry(upstream))

\* EntityAgent.validate_entities with its log call, which is inside the try block
EntityValidationLogged(text, entities, upstream, sink) ==
    EntityValidationExcept(IF Answered200(upstream)
                           THEN ThenLog(EntityValidationTry(upstream), sink)
                           ELSE EntityValidationTry(upstream))

\* CriticAgent.review_summary with its log call
ReviewSummaryLogged(summary, upstream, sink) ==
    IF Answered200(upstream) THEN ThenLog(ReviewSummary(summary, upstream), sink)
    ELSE ReviewSummary(summary, upstream)

-----------------------------------------------------------------------------
(* Inputs of the requests *)

GoodFile(parts) == [fails |-> FALSE, cls |-> "", msg |-> <<>>, parts |-> parts]
BadFile(cls, msg) == [fails |-> TRUE, cls |-> cls, msg |-> msg, parts |-> <<>>]

\* "Al Bo, 1/2/34, Xy Inc"
TextWithEntities ==
    <<"A","l"," ","B","o",","," ","1","/","2","/","3","4",","," ","X","y"," ","I","n","c">>
\* "to be or not"
TextWithoutEntities == <<"t","o"," ","b","e"," ","o","r"," ","n","o","t">>

\* the files clients upload, each under its file name
Uploads ==
    {[filename |-> <<"a",".","p","d","f">>, file |-> GoodFile(<<TextWithEntities>>)],
     [filename |-> <<"b",".","d","o","c","x">>, file |-> GoodFile(<<TextWithoutEntities>>)],
     [filename |-> <<"c",".","h","t","m","l">>,
      file |-> BadFile("UnicodeDecodeError", <<"b","a","d"," ","b","y","t","e">>)],
     [filename |-> <<"a",".","p","d","f",".","t","x","t">>,
      file |-> GoodFile(<<TextWithoutEntities>>)]}

\* the summary clients submit to update_summary: "ok"
UpdatedSummaries == {<<"o","k">>}

\* the questions clients ask: "Who?" and the empty string
ApiQuestions == {<<"W","h","o","?">>, <<>>}

\* the queries clients search for: "AL B", "o", "zz"
Queries == {<<"A","L"," ","B">>, <<"o">>, <<"z","z">>}

\* what datetime.utcnow() gives mcp_file_save: .timestamp() and .isoformat()
ClockReadings ==
    {[timestamp |-> <<"1",".","5">>,
      isoformat |-> <<"2","0","2","5","-","0","1","-","0","1","T","0","0",":","0","0",":",
                      "0","1",".","5">>]}

\* outcomes of one requests.post
Response(code, text, shape, content, cls, msg) ==
    [kind |-> "response", status_code |-> code, text |-> text, shape |-> shape,
     content |-> content, cls |-> cls, msg |-> msg]

PostRaises(cls, msg) ==
    [kind |-> "raise", status_code |-> 0, text |-> <<>>, shape |-> "",
     content |-> <<>>, cls |-> cls, msg |-> msg]

\* "Internal server error"
InternalServerError ==
    <<"I","n","t","e","r","n","a","l"," ","s","e","r","v","e","r"," ","e","r","r","o","r">>

\* what the upstream does with the summarizer's request during an upload
ApiUpstreams ==
    {Response(200, <<>>, "chat", <<" ","a"," ","b"," ","c"," ","d"," ","e"," ","f","\n">>,
              "", <<>>),
     Response(200, <<>>, "chat", <<"o","k">>, "", <<>>),
     Response(500, InternalServerError, "", <<>>, "", <<>>),
     PostRaises("ReadTimeout", <<"t","i","m","e","d"," ","o","u","t">>)}

-----------------------------------------------------------------------------
(* backend/main.py: the exception handlers *)

\* "Document not found"
DocumentNotFound ==
    <<"D","o","c","u","m","e","n","t"," ","n","o","t"," ","f","o","u","n","d">>

\* "An unexpected error occurred. Please try again later."
UnexpectedErrorMessage ==
    <<"A","n"," ","u","n","e","x","p","e","c","t","e","d"," ","e","r","r","o","r"," ",
      "o","c","c","u","r","r","e","d","."," ","P","l","e","a","s","e"," ","t","r","y"," ",
      "a","g","a","i","n"," ","l","a","t","e","r",".">>

\* f"HTTP {exc.status_code}"
HttpErrorLabel(status_code) ==
    CASE status_code = 404 -> "HTTP 404"
      [] status_code = 500 -> "HTTP 500"
      [] OTHER -> "HTTP"

ErrorResponse(status_code, error, message, type) ==
    [status_code |-> status_code,
     body |-> [error |-> error, message |-> message, type |-> type]]

\* faulty variant: only the catch-all handler is registered
ExceptionResponse_AllInternal(cls, msg, status_code) ==
    ErrorResponse(500, "Internal Server Error", UnexpectedErrorMessage, "internal_server_error")

\* the response the handler registered for the exception's class sends
ExceptionResponse(cls, msg, status_code) ==
    CASE cls = "DocumentParsingError" ->
            ErrorResponse(422, "Document Parsing Error", msg, "document_parsing_error")
      [] cls = "UnsupportedFileFormatError" ->
            ErrorResponse(415, "Unsupported File Format", msg, "unsupported_file_format_error")
      [] cls = "ProcessingError" ->
            ErrorResponse(500, "Processing Error", msg, "processing_error")
      [] cls = "HTTPException" ->
            ErrorResponse(status_code, HttpErrorLabel(status_code), msg, "http_error")
      [] OTHER ->
            ErrorResponse(500, "Internal Server Error", UnexpectedErrorMessage,
                          "internal_server_error")

-----------------------------------------------------------------------------
(* backend/routes/documents.py *)

\* "uploaded_docs" joined with a file name
UploadDir == <<"u","p","l","o","a","d","e","d","_","d","o","c","s","/">>

\* "Unsupported file format"
UnsupportedFileFormat ==
    <<"U","n","s","u","p","p","o","r","t","e","d"," ","f","i","l","e"," ",
      "f","o","r","m","a","t">>

\* the n-th identifier str(uuid.uuid4()) returns: a fresh opaque token without "."
DocId(n) == <<"d", <<"0","1","2","3","4","5","6","7","8","9">>[(n % 10) + 1]>>

DocIds == {DocId(n) : n \in 1..MaxDocs}

\* os.path.join(UPLOAD_DIR, f"{doc_id}_{file.filename}")
FilePath(doc_id, filename) == UploadDir \o doc_id \o <<"_">> \o filename

\* faulty variant: the suffix anywhere in the name
AcceptsFilename_AnySupportedMarker(filename) ==
    Contains(filename, PdfSuffix) \/ Contains(filename, DocxSuffix)
        \/ Contains(filename, HtmlSuffix)

\* file.filename.endswith((".pdf", ".docx", ".html"))
AcceptsFilename(filename) ==
    EndsWith(filename, PdfSuffix) \/ EndsWith(filename, DocxSuffix)
        \/ EndsWith(filename, HtmlSuffix)

\* faulty variant: the verdict is ignored
GateSummary_NoRollback(summarizer_output) ==
    [summary |-> summarizer_output, calls |-> <<"validate_summary">>]

\* faulty variant: a failed validation asks the summarizer again
GateSummary_Retry(summarizer_output) ==
    IF ValidateSummary(summarizer_output)
    THEN [summary |-> summarizer_output, calls |-> <<"validate_summary">>]
    ELSE [summary |-> RollbackSummary,
          calls |-> <<"validate_summary", "summarize_document", "validate_summary",
                      "rollback_summary">>]

\* if not validator.validate_summary(summary): summary = validator.rollback_summary()
GateSummary(summarizer_output) ==
    IF ValidateSummary(summarizer_output)
    THEN [summary |-> summarizer_output, calls |-> <<"validate_summary">>]
    ELSE [summary |-> RollbackSummary,
          calls |-> <<"validate_summary", "rollback_summary">>]

\* faulty variant: the error is added to the EntitySet instead of replacing it
GateEntities_FlagOnly(extracted) ==
    IF ValidateEntities(extracted)
    THEN [entities |-> extracted, calls |-> <<"validate_entities">>]
    ELSE [entities |-> [names |-> extracted.names, dates |-> extracted.dates,
                        organizations |-> extracted.organizations,
                        error |-> RollbackEntities],
          calls |-> <<"validate_entities", "rollback_entities">>]

\* if not validator.validate_entities(entities): entities = {"error": validator.rollback_entities()}
GateEntities(extracted) ==
    IF ValidateEntities(extracted)
    THEN [entities |-> extracted, calls |-> <<"validate_entities">>]
    ELSE [entities |-> [error |-> RollbackEntities],
          calls |-> <<"validate_entities", "rollback_entities">>]

Reqs == 1..MaxReqs

NoRequest == [op |-> "none"]
NoResponse == [status_code |-> 0]

\* slot r answers its request; a slot answered earlier is free again, the
\* server keeps nothing of a request once its response is sent
Answer(r, request, response, made) ==
    /\ pc' = [s \in DOMAIN pc |->
                IF s = r THEN "done" ELSE IF pc[s] = "done" THEN "idle" ELSE pc[s]]
    /\ req' = [s \in DOMAIN req |->
                 IF s = r THEN request ELSE IF pc[s] = "done" THEN NoRequest ELSE req[s]]
    /\ resp' = [s \in DOMAIN resp |->
                  IF s = r THEN response ELSE IF pc[s] = "done" THEN NoResponse ELSE resp[s]]
    /\ calls' = [s \in DOMAIN calls |->
                   IF s = r THEN made ELSE IF pc[s] = "done" THEN <<>> ELSE calls[s]]

\* faulty variant: the record is published when the upload is received and
\* filled in when it has been processed
UploadReceiveOf_Placeholder(r, uploads) ==
    /\ pc[r] \in {"idle", "done"}
    /\ \E up \in uploads :
        /\ AcceptsFilename(up.filename)
        /\ Cardinality(issued) < MaxDocs
        /\ LET doc_id == DocId(Cardinality(issued) + 1)
           IN  /\ issued' = issued \cup {doc_id}
               /\ req' = [req EXCEPT ![r] =
                             [op |-> "upload", filename |-> up.filename,
                              file |-> up.file, doc_id |-> doc_id]]
               /\ documents_store' =
                     [d \in DOMAIN documents_store \cup {doc_id} |->
                         IF d = doc_id
                         THEN [filename |-> up.filename, text |-> <<>>, summary |-> <<>>,
                               entities |-> [error |-> <<>>]]
                         ELSE documents_store[d]]
        /\ pc' = [pc EXCEPT ![r] = "reading"]
        /\ resp' = [resp EXCEPT ![r] = NoResponse]
        /\ calls' = [calls EXCEPT ![r] = <<>>]
        /\ UNCHANGED key_order
    /\ UNCHANGED agentVars

\* upload_document up to `await file.read()`: the suffix check, the fresh doc_id
\* and file_path; req[r].file is what the format library will find at file_path
UploadReceiveOf(r, uploads) ==
    /\ pc[r] \in {"idle", "done"}
    /\ \E up \in uploads :
        IF ~AcceptsFilename(up.filename)
        THEN /\ Answer(r, [op |-> "upload", filename |-> up.filename, file |-> up.file,
                           doc_id |-> None],
                       ExceptionResponse("UnsupportedFileFormatError", UnsupportedFileFormat, 0),
                       <<>>)
             /\ UNCHANGED <<documents_store, key_order, issued>>
        ELSE /\ Cardinality(issued) < MaxDocs
             /\ LET doc_id == DocId(Cardinality(issued) + 1)
                IN  /\ issued' = issued \cup {doc_id}
                    /\ req' = [req EXCEPT ![r] =
                                  [op |-> "upload", filename |-> up.filename,
                                   file |-> up.file, doc_id |-> doc_id]]
             /\ pc' = [pc EXCEPT ![r] = "reading"]
             /\ resp' = [resp EXCEPT ![r] = NoResponse]
             /\ calls' = [calls EXCEPT ![r] = <<>>]
             /\ UNCHANGED <<documents_store, key_order>>
    /\ UNCHANGED agentVars

\* the same, the client sending any of Uploads
UploadReceive(r) == UploadReceiveOf(r, Uploads)

\* upload_document from the parse on: it runs without an await, so as one step
UploadProcessWith(r, upstreams) ==
    /\ pc[r] = "reading"
    /\ LET q == req[r]
           parsed == Parse(FilePath(q.doc_id, q.filename), q.file)
       IN  IF parsed.raised
           THEN /\ Answer(r, q, ExceptionResponse(parsed.cls, parsed.msg, 0), <<"parse">>)
                /\ UNCHANGED <<documents_store, key_order, issued>>
           ELSE \E upstream \in upstreams, extracted \in Extract(parsed.value) :
                  LET text == parsed.value
                      summarized == SummarizeDocument(text, upstream)
                      s == GateSummary(summarized.value)
                      e == GateEntities(extracted)
                  IN  IF summarized.raised
                      THEN /\ Answer(r, q,
                                     ExceptionResponse(summarized.cls, summarized.msg, 0),
                                     <<"parse", "summarize_document">>)
                           /\ UNCHANGED <<documents_store, key_order, issued>>
                      ELSE /\ documents_store' =
                                 [d \in DOMAIN documents_store \cup {q.doc_id} |->
                                     IF d = q.doc_id
                                     THEN [filename |-> q.filename, text |-> text,
                                           summary |-> s.summary, entities |-> e.entities]
                                     ELSE documents_store[d]]
                           /\ key_order' = Append(key_order, q.doc_id)
                           /\ Answer(r,
                                     [op |-> "upload", filename |-> q.filename,
                                      file |-> q.file, doc_id |-> q.doc_id,
                                      text |-> text, upstream |-> upstream,
                                      summarizer_output |-> summarized.value,
                                      extracted |-> extracted],
                                     [status_code |-> 200,
                                      body |-> [doc_id |-> q.doc_id, filename |-> q.filename,
                                                summary |-> s.summary,
                                                entities |-> e.entities]],
                                     <<"parse", "summarize_document">> \o s.calls
                                         \o <<"extract">> \o e.calls \o <<"store">>)
                           /\ UNCHANGED issued
    /\ UNCHANGED agentVars

\* the same, the upstream doing any of ApiUpstreams
UploadProcess(r) == UploadProcessWith(r, ApiUpstreams)

-----------------------------------------------------------------------------
(* backend/routes/summary.py *)

\* raise HTTPException(status_code=404, detail="Document not found")
NotFound == ExceptionResponse("HTTPException", DocumentNotFound, 404)

\* get_summary
GetSummary(r) ==
    /\ pc[r] \in {"idle", "done"}
    /\ \E doc_id \in DocIds :
        LET q == [op |-> "get_summary", doc_id |-> doc_id]
        IN  IF doc_id \notin DOMAIN documents_store
            THEN Answer(r, q, NotFound, <<>>)
            ELSE Answer(r, q,
                        [status_code |-> 200,
                         body |-> [doc_id |-> doc_id,
                                   summary |-> documents_store[doc_id].summary]],
                        <<>>)
    /\ UNCHANGED <<documents_store, key_order, issued, agentVars>>

\* faulty variant: the new text is appended to the stored summary
HandleUpdate_Append(r, doc_id, updated_summary) ==
    LET q == [op |-> "update_summary", doc_id |-> doc_id,
              updated_summary |-> updated_summary]
    IN  IF doc_id \notin DOMAIN documents_store
        THEN /\ Answer(r, q, NotFound, <<>>)
             /\ UNCHANGED documents_store
        ELSE /\ documents_store' =
                   [documents_store EXCEPT ![doc_id].summary = @ \o updated_summary]
             /\ Answer(r, q,
                       [status_code |-> 200,
                        body |-> [doc_id |-> doc_id, summary |-> updated_summary,
                                  status |-> "updated"]],
                       <<>>)

\* faulty variant: a summary that was edited before is not written again
HandleUpdate_FirstWins(r, doc_id, updated_summary) ==
    LET q == [op |-> "update_summary", doc_id |-> doc_id,
              updated_summary |-> updated_summary]
    IN  IF doc_id \notin DOMAIN documents_store
        THEN /\ Answer(r, q, NotFound, <<>>)
             /\ UNCHANGED documents_store
        ELSE /\ documents_store' =
                   IF documents_store[doc_id].summary \in UpdatedSummaries
                   THEN documents_store
                   ELSE [documents_store EXCEPT ![doc_id].summary = updated_summary]
             /\ Answer(r, q,
                       [status_code |-> 200,
                        body |-> [doc_id |-> doc_id, summary |-> updated_summary,
                                  status |-> "updated"]],
                       <<>>)

\* faulty variant: an unknown doc_id gets a record instead of the 404
HandleUpdate_Upsert(r, doc_id, updated_summary) ==
    LET q == [op |-> "update_summary", doc_id |-> doc_id,
              updated_summary |-> updated_summary]
    IN  /\ documents_store' =
              [d \in DOMAIN documents_store \cup {doc_id} |->
                  IF d # doc_id THEN documents_store[d]
                  ELSE IF d \in DOMAIN documents_store
                       THEN [documents_store[d] EXCEPT !.summary = updated_summary]
                       ELSE [filename |-> <<>>, text |-> <<>>, summary |-> updated_summary,
                             entities |-> [error |-> RollbackEntities]]]
        /\ Answer(r, q,
                  [status_code |-> 200,
                   body |-> [doc_id |-> doc_id, summary |-> updated_summary,
                             status |-> "updated"]],
                  <<>>)

\* the body of update_summary for one request
HandleUpdate(r, doc_id, updated_summary) ==
    LET q == [op |-> "update_summary", doc_id |-> doc_id,
              updated_summary |-> updated_summary]
    IN  IF doc_id \notin DOMAIN documents_store
        THEN /\ Answer(r, q, NotFound, <<>>)
             /\ UNCHANGED documents_store
        ELSE /\ documents_store' =
                   [documents_store EXCEPT ![doc_id].summary = updated_summary]
             /\ Answer(r, q,
                       [status_code |-> 200,
                        body |-> [doc_id |-> doc_id, summary |-> updated_summary,
                                  status |-> "updated"]],
                       <<>>)

\* update_summary
UpdateSummary(r) ==
    /\ pc[r] \in {"idle", "done"}
    /\ \E doc_id \in DocIds, updated_summary \in UpdatedSummaries :
        HandleUpdate(r, doc_id, updated_summary)
    /\ UNCHANGED <<key_order, issued, agentVars>>

-----------------------------------------------------------------------------
(* backend/routes/qa.py *)

\* faulty variant: the agent is asked before the document is looked up
AskQuestionWith_LookupLast(r, upstreams) ==
    /\ pc[r] \in {"idle", "done"}
    /\ \E doc_id \in DocIds, question \in ApiQuestions, upstream \in upstreams :
        LET q == [op |-> "ask_question", doc_id |-> doc_id, question |-> question,
                  upstream |-> upstream]
        IN  IF doc_id \notin DOMAIN documents_store
            THEN Answer(r, q, NotFound, <<"ask">>)
            ELSE LET answer == Ask(question, documents_store[doc_id].text, upstream)
                 IN  IF answer.raised
                     THEN Answer(r, q, ExceptionResponse(answer.cls, answer.msg, 0),
                                 <<"ask">>)
                     ELSE Answer(r, q,
                                 [status_code |-> 200,
                                  body |-> [doc_id |-> doc_id, question |-> question,
                                            answer |-> answer.value]],
                                 <<"ask">>)
    /\ UNCHANGED <<documents_store, key_order, issued, agentVars>>

\* ask_question: QAAgent.ask blocks inside the handler, which never awaits
AskQuestionWith(r, upstreams) ==
    /\ pc[r] \in {"idle", "done"}
    /\ \E doc_id \in DocIds, question \in ApiQuestions :
        IF doc_id \notin DOMAIN documents_store
        THEN Answer(r, [op |-> "ask_question", doc_id |-> doc_id, question |-> question],
                    NotFound, <<>>)
        ELSE \E upstream \in upstreams :
               LET q == [op |-> "ask_question", doc_id |-> doc_id, question |-> question,
                         upstream |-> upstream]
                   doc_text == documents_store[doc_id].text
                   answer == Ask(question, doc_text, upstream)
               IN  IF answer.raised
                   THEN Answer(r, q, ExceptionResponse(answer.cls, answer.msg, 0), <<"ask">>)
                   ELSE Answer(r, q,
                               [status_code |-> 200,
                                body |-> [doc_id |-> doc_id, question |-> question,
                                          answer |-> answer.value]],
                               <<"ask">>)
    /\ UNCHANGED <<documents_store, key_order, issued, agentVars>>

\* the same, the upstream doing any of ApiUpstreams
AskQuestion(r) == AskQuestionWith(r, ApiUpstreams)

-----------------------------------------------------------------------------
(* backend/routes/mcp.py, backend/utils/helpers.py *)

\* "mcp-"
McpPrefix == <<"m","c","p","-">>

\* mcp_file_save: the file_id is built from doc_id and the clock
McpFileSave(doc_id, content, now) ==
    [status |-> "saved",
     file_id |-> McpPrefix \o doc_id \o <<"-">> \o now.timestamp,
     doc_id |-> doc_id,
     size |-> Len(content),
     timestamp |-> now.isoformat]

\* save_document
SaveDocument(r) ==
    /\ pc[r] \in {"idle", "done"}
    /\ \E doc_id \in DocIds :
        LET q == [op |-> "save_document", doc_id |-> doc_id]
        IN  IF doc_id \notin DOMAIN documents_store
            THEN Answer(r, q, NotFound, <<>>)
            ELSE \E now \in ClockReadings :
                   Answer(r, q,
                          [status_code |-> 200,
                           body |-> McpFileSave(doc_id, documents_store[doc_id].text, now)],
                          <<"mcp_file_save">>)
    /\ UNCHANGED <<documents_store, key_order, issued, agentVars>>

\* one character of str.lower(), for the letters A to Z
LowerChar(c) ==
    LET upper == <<"A","B","C","D","E","F","G","H","I","J","K","L","M",
                   "N","O","P","Q","R","S","T","U","V","W","X","Y","Z">>
        lower == <<"a","b","c","d","e","f","g","h","i","j","k","l","m",
                   "n","o","p","q","r","s","t","u","v","w","x","y","z">>
    IN  IF c \in Upper THEN lower[CHOOSE n \in 1..26 : upper[n] = c] ELSE c

\* s.lower()
LowerCase(s) == [i \in 1..Len(s) |-> LowerChar(s[i])]

\* faulty variant: the comparison keeps the case
Matches_CaseSensitive(query, doc) == Contains(doc.text, query)

\* query.lower() in doc["text"].lower()
Matches(query, doc) == Contains(LowerCase(doc.text), LowerCase(query))

\* the loop of search_docs over documents_store.items(), from key n on
RECURSIVE SearchResults(_, _)
SearchResults(query, n) ==
    IF n > Len(key_order) THEN <<>>
    ELSE LET doc_id == key_order[n]
             doc == documents_store[doc_id]
         IN  (IF Matches(query, doc)
              THEN <<[doc_id |-> doc_id, filename |-> doc.filename]>>
              ELSE <<>>) \o SearchResults(query, n + 1)

\* search_docs
SearchDocs(r) ==
    /\ pc[r] \in {"idle", "done"}
    /\ \E query \in Queries :
        Answer(r, [op |-> "search_docs", query |-> query],
               [status_code |-> 200,
                body |-> [query |-> query, results |-> SearchResults(query, 1)]],
               <<>>)
    /\ UNCHANGED <<documents_store, key_order, issued, agentVars>>

-----------------------------------------------------------------------------
(* Inputs of the agent-level specification *)

\* the summaries validate_summary is applied to
SummaryInputs ==
    StringsUpTo({"a", " "}, MaxSummaryLen)
        \cup {None, RollbackSummary, NoSummaryGenerated,
              <<"a","\n","b","\t","c"," ","\r","d"," ","e">>,
              <<" ","a","\n","b","\t","c"," ","\r","d"," ","e","\n","f","\n">>}

EntityValues == {<<"A">>, <<"B">>}

EntityLists == StringsUpTo(EntityValues, MaxEntityListLen)

\* the EntitySets validate_entities is applied to
EntitySetInputs ==
    {[names |-> n, dates |-> d, organizations |-> o] :
        n \in EntityLists, d \in EntityLists, o \in EntityLists}

\* the paths parse is applied to
PathInputs ==
    {<<"a",".","p","d","f">>, <<"a",".","d","o","c","x">>, <<"a",".","h","t","m","l">>,
     <<"a",".","t","x","t">>, <<"a",".","p","d","f",".","t","x","t">>,
     <<"a",".","h","t","m","l",".","d","o","c","x">>, <<"a",".","P","D","F">>,
     <<"a",".","h","t","m">>, <<"a",".","d","o","c">>, <<"p","d","f">>, <<>>,
     <<".","h","t","m","l">>, <<"d","o","c","x",".">>}

\* files the format library reads: their parts in order
GoodFiles ==
    {GoodFile(ps) :
        ps \in {<<>>, << <<"T","o"," ","b","e">> >>,
                << <<"A","l">>, <<>>, <<"B","o","\n">> >>,
                << <<>>, <<" ","x">>, <<>> >>}}

\* files the format library fails on: the exception it raises
BadFiles ==
    {BadFile(e[1], e[2]) :
        e \in {<<"FileNotFoundError", <<"n","o"," ","f","i","l","e">> >>,
               <<"UnicodeDecodeError", <<"b","a","d"," ","b","y","t","e">> >>,
               <<"FileDataError", <<"b","r","o","k","e","n">> >>,
               <<"PackageNotFoundError", <<>> >>}}

FileInputs == GoodFiles \cup BadFiles

\* model answers
ContentInputs ==
    {<<>>, <<" ","\n">>, <<" ","o","k","\n">>,
     <<"a"," ","b"," ","c"," ","d"," ","e">>,
     <<"a"," ","b"," ","c"," ","d"," ","e"," ","f">>}

UpstreamInputs ==
    {Response(200, c, "chat", c, "", <<>>) : c \in ContentInputs}
        \cup {Response(code, t, "", <<>>, "", <<>>) :
                code \in {500, 429},
                t \in {<<>>, InternalServerError, <<"a"," ","b"," ","c"," ","d">>}}
        \* a 200 whose body is not JSON: resp.json() raises requests' JSONDecodeError
        \* (a RequestException since requests 2.27) or json's (a ValueError, before)
        \cup {Response(200, <<"<","h","t","m","l",">">>, "not_json", <<>>, cls,
                       <<"E","x","p","e","c","t","i","n","g"," ","v","a","l","u","e">>) :
                cls \in {"RequestsJSONDecodeError", "JSONDecodeError"}}
        \* a 200 whose JSON has no "choices": KeyError; whose content is null: AttributeError
        \cup {Response(200, <<"{","}">>, "no_choices", <<>>, "KeyError",
                       <<"'","c","h","o","i","c","e","s","'">>),
              Response(200, <<"{",".",".","}">>, "null_content", <<>>, "AttributeError",
                       <<"n","o"," ","s","t","r","i","p">>)}
        \cup {PostRaises(cls, <<"d","o","w","n">>) :
                cls \in {"ConnectionError", "ReadTimeout", "ConnectTimeout", "RuntimeError"}}

UserContentInputs == {<<>>, <<"S","u","m",":","\n","x">>}

\* a text of n characters whose neighbours differ
LongText(n) == [i \in 1..n |-> <<"a","b","c","d","e","f","g">>[(i % 7) + 1]]

\* lengths around the places where user_content[:4000] starts to cut
TextLengths ==
    {0, 3}
        \cup {SummarizerContentLimit - Len(prompt) + k :
                 prompt \in {SummarizeSectionPrompt, SummarizeDocumentPrompt,
                             SummarizeCorpusPrompt},
                 k \in 0..MaxExcess}
        \cup {SummarizerContentLimit + k : k \in 0..MaxExcess}

\* the texts summarize_section and summarize_document are applied to
TextInputs == {LongText(n) : n \in TextLengths}

\* the document lists summarize_corpus is applied to
CorpusInputs ==
    {<<>>, << <<"D","o","c"," ","1">> >>, << <<>>, <<>> >>,
     << <<"D","o","c"," ","1">>, <<"D","o","c"," ","2">>, <<"D","o","c"," ","3">> >>}
        \cup {<<LongText(n), <<"D","o","c"," ","2">> >> : n \in TextLengths}
        \cup {<< <<"D","o","c"," ","1">>, LongText(n), <<"D","o","c"," ","3">> >> :
                 n \in TextLengths}

\* what the upstream does with a summarize_* request
SummarizeUpstreams ==
    {Response(200, <<>>, "chat", <<"a"," ","s","u","m","m","a","r","y">>, "", <<>>),
     Response(500, InternalServerError, "", <<>>, "", <<>>)}

\* the questions and document texts ask is applied to
QuestionInputs == {<<>>, <<" ","\n","\t"," ">>, <<"W","h","o","?">>, <<" ","W","h","o","?">>}
DocTextInputs == {<<>>, <<" ","\n","\t"," ">>, <<"A","l"," ","B","o">>, <<"\n","x">>}

\* the texts and entities EntityAgent.validate_entities is applied to
EntityTextInputs == {<<"A","l"," ","B","o">>, LongText(EntityContentLimit + MaxExcess)}
EntityInputs ==
    {[names |-> <<>>, dates |-> <<>>, organizations |-> <<>>],
     [names |-> << <<"A","l"," ","B","o">> >>, dates |-> <<>>,
      organizations |-> << <<"X","y"," ","I","n","c">>, <<"Z"," ","L","t","d">> >>]}

\* the texts extract is applied to
ExtractInputs ==
    {TextWithEntities, TextWithoutEntities, <<>>,
     \* "Al Bo, Al Bo, Xy Inc, Xy Inc, 1/2/34 9/9/99 1/2/34"
     <<"A","l"," ","B","o",","," ","A","l"," ","B","o",","," ","X","y"," ","I","n","c",
       ","," ","X","y"," ","I","n","c",","," ","1","/","2","/","3","4"," ","9","/","9",
       "/","9","9"," ","1","/","2","/","3","4">>,
     \* "13/45/2023 99/99/99 13/45/2023"
     <<"1","3","/","4","5","/","2","0","2","3"," ","9","9","/","9","9","/","9","9"," ",
       "1","3","/","4","5","/","2","0","2","3">>,
     \* "1/2/34/5/67"
     <<"1","/","2","/","3","4","/","5","/","6","7">>,
     \* "a1/2/34 1/2/345 1-2/34 1/2/3"
     <<"a","1","/","2","/","3","4"," ","1","/","2","/","3","4","5"," ","1","-","2","/",
       "3","4"," ","1","/","2","/","3">>}

\* the summaries review_summary is applied to
ReviewInputs == {<<>>, <<"a"," ","s","u","m","m","a","r","y">>}

-----------------------------------------------------------------------------
(* Agent-level specification: Init draws one agent call and its arguments,  *)
(* the action of that agent method applies it.                              *)

Pending == [done |-> FALSE]

ValidateSummaryCall ==
    /\ call.op = "validate_summary" /\ ret.done = FALSE
    /\ ret' = [done |-> TRUE, raised |-> FALSE, value |-> ValidateSummary(call.summary)]
    /\ UNCHANGED <<call, apiVars>>

ValidateEntitiesCall ==
    /\ call.op = "validate_entities" /\ ret.done = FALSE
    /\ ret' = [done |-> TRUE, raised |-> FALSE, value |-> ValidateEntities(call.entities)]
    /\ UNCHANGED <<call, apiVars>>

ParseCall ==
    /\ call.op = "parse" /\ ret.done = FALSE
    /\ ret' = [done |-> TRUE, result |-> Parse(call.file_path, call.file)]
    /\ UNCHANGED <<call, apiVars>>

CallLlmCall ==
    /\ call.op = "_call_llm" /\ ret.done = FALSE
    /\ ret' = [done |-> TRUE, request |-> CallLlmRequest(call.user_content),
               result |-> CallLlm(call.user_content, call.upstream)]
    /\ UNCHANGED <<call, apiVars>>

SummarizeSectionCall ==
    /\ call.op = "summarize_section" /\ ret.done = FALSE
    /\ ret' = [done |-> TRUE,
               posts |-> CallLlmPosts(SummarizeSectionContent(call.text)),
               result |-> SummarizeSection(call.text, call.upstream)]
    /\ UNCHANGED <<call, apiVars>>

SummarizeDocumentCall ==
    /\ call.op = "summarize_document" /\ ret.done = FALSE
    /\ ret' = [done |-> TRUE,
               posts |-> CallLlmPosts(SummarizeDocumentContent(call.text)),
               result |-> SummarizeDocument(call.text, call.upstream)]
    /\ UNCHANGED <<call, apiVars>>

SummarizeCorpusCall ==
    /\ call.op = "summarize_corpus" /\ ret.done = FALSE
    /\ ret' = [done |-> TRUE,
               posts |-> CallLlmPosts(SummarizeCorpusContent(call.texts)),
               result |-> SummarizeCorpus(call.texts, call.upstream)]
    /\ UNCHANGED <<call, apiVars>>

AskCall ==
    /\ call.op = "ask" /\ ret.done = FALSE
    /\ ret' = [done |-> TRUE,
               posts |-> AskPosts(call.question, call.doc_text),
               result |-> Ask(call.question, call.doc_text, call.upstream)]
    /\ UNCHANGED <<call, apiVars>>

EntityValidationCall ==
    /\ call.op = "entity_validate_entities" /\ ret.done = FALSE
    /\ ret' = [done |-> TRUE,
               posts |-> EntityValidationPosts(call.text, call.entities),
               result |-> EntityValidation(call.text, call.entities, call.upstream)]
    /\ UNCHANGED <<call, apiVars>>

ReviewSummaryCall ==
    /\ call.op = "review_summary" /\ ret.done = FALSE
    /\ ret' = [done |-> TRUE,
               posts |-> ReviewSummaryPosts(call.summary),
               result |-> ReviewSummary(call.summary, call.upstream)]
    /\ UNCHANGED <<call, apiVars>>

\* EntityAgent.extract, called twice on one text
ExtractCall ==
    /\ call.op = "extract" /\ ret.done = FALSE
    /\ \E first \in Extract(call.text), second \in Extract(call.text) :
          ret' = [done |-> TRUE, first |-> first, second |-> second]
    /\ UNCHANGED <<call, apiVars>>

ApiInit ==
    /\ documents_store = <<>>
    /\ key_order = <<>>
    /\ issued = {}
    /\ pc = [r \in Reqs |-> "idle"]
    /\ req = [r \in Reqs |-> NoRequest]
    /\ resp = [r \in Reqs |-> NoResponse]
    /\ calls = [r \in Reqs |-> <<>>]

NoCall == [op |-> "none"]

AgentInit ==
    /\ ApiInit
    /\ \/ \E s \in SummaryInputs : call = [op |-> "validate_summary", summary |-> s]
       \/ \E e \in EntitySetInputs : call = [op |-> "validate_entities", entities |-> e]
       \/ \E p \in PathInputs, f \in FileInputs :
              call = [op |-> "parse", file_path |-> p, file |-> f]
       \/ \E c \in UserContentInputs, u \in UpstreamInputs :
              call = [op |-> "_call_llm", user_content |-> c, upstream |-> u]
       \/ \E t \in TextInputs, u \in SummarizeUpstreams :
              \/ call = [op |-> "summarize_section", text |-> t, upstream |-> u]
              \/ call = [op |-> "summarize_document", text |-> t, upstream |-> u]
       \/ \E ts \in CorpusInputs, u \in SummarizeUpstreams :
              call = [op |-> "summarize_corpus", texts |-> ts, upstream |-> u]
       \/ \E q \in QuestionInputs, d \in DocTextInputs, u \in UpstreamInputs :
              call = [op |-> "ask", question |-> q, doc_text |-> d, upstream |-> u]
       \/ \E t \in EntityTextInputs, e \in EntityInputs, u \in UpstreamInputs :
              call = [op |-> "entity_validate_entities", text |-> t, entities |-> e,
                      upstream |-> u]
       \/ \E t \in ReviewInputs, u \in UpstreamInputs :
              call = [op |-> "review_summary", summary |-> t, upstream |-> u]
       \/ \E t \in ExtractInputs : call = [op |-> "extract", text |-> t]
    /\ ret = Pending

AgentNext ==
    \/ ValidateSummaryCall
    \/ ValidateEntitiesCall
    \/ ParseCall
    \/ CallLlmCall
    \/ SummarizeSectionCall
    \/ SummarizeDocumentCall
    \/ SummarizeCorpusCall
    \/ AskCall
    \/ EntityValidationCall
    \/ ReviewSummaryCall
    \/ ExtractCall

SpecAgents == AgentInit /\ [][AgentNext]_vars

-----------------------------------------------------------------------------
(* Specification of the API: the handlers over documents_store *)

Init ==
    /\ ApiInit
    /\ call = NoCall
    /\ ret = Pending

Next ==
    \/ \E r \in Reqs : UploadReceive(r)
    \/ \E r \in Reqs : UploadProcess(r)
    \/ \E r \in Reqs : UpdateSummary(r)

Spec == Init /\ [][Next]_vars

-----------------------------------------------------------------------------
(* Specification of the whole API: the six handlers, the uploads being two   *)
(* files that parse and the upstream answering or failing with a status      *)

\* the two uploads of Uploads that parse: a.pdf and b.docx
PlainUploads == {up \in Uploads : AcceptsFilename(up.filename) /\ ~up.file.fails}

\* the upstream answers 200 with a summary that passes validate_summary
PlainUpstreams == {u \in ApiUpstreams : u.kind = "response" /\ u.status_code = 200
                                          /\ ValidateSummary(Strip(u.content))}

\* the upstream answers 200 with that content, or 500
AskUpstreams ==
    PlainUpstreams \cup {u \in ApiUpstreams : u.kind = "response" /\ u.status_code # 200}

ApiNext ==
    \/ \E r \in Reqs : UploadReceiveOf(r, PlainUploads)
    \/ \E r \in Reqs : UploadProcessWith(r, PlainUpstreams)
    \/ \E r \in Reqs : UpdateSummary(r)
    \/ \E r \in Reqs : GetSummary(r)
    \/ \E r \in Reqs : AskQuestionWith(r, AskUpstreams)
    \/ \E r \in Reqs : SaveDocument(r)
    \/ \E r \in Reqs : SearchDocs(r)

SpecApi == Init /\ [][ApiNext]_vars

-----------------------------------------------------------------------------
(* Specification of racing edits: update_summary requests that are in flight *)
(* together, each handler running in one piece when the event loop picks it  *)

Writers == 1..MaxWriters

\* the summaries racing clients submit: "ok" and "no"
RacingSummaries == {<<"o","k">>, <<"n","o">>}

\* the documents raced for are uploads of a.pdf
RacedUploads == {up \in Uploads : up.filename = <<"a",".","p","d","f">>}

\* a client posts {"updated_summary": ...} to /{doc_id}/update for a stored
\* document; the framework reads the body before it calls the handler
SubmitUpdate(r) ==
    /\ pc[r] \in {"idle", "done"}
    /\ \E doc_id \in DOMAIN documents_store, updated_summary \in RacingSummaries :
        /\ req' = [req EXCEPT ![r] = [op |-> "update_summary", doc_id |-> doc_id,
                                      updated_summary |-> updated_summary]]
        /\ pc' = [pc EXCEPT ![r] = "pending"]
        /\ resp' = [resp EXCEPT ![r] = NoResponse]
        /\ calls' = [calls EXCEPT ![r] = <<>>]
    /\ UNCHANGED <<documents_store, key_order, issued, agentVars>>

\* the event loop runs update_summary for the request of slot r
RunUpdate(r) ==
    /\ pc[r] = "pending"
    /\ HandleUpdate(r, req[r].doc_id, req[r].updated_summary)
    /\ UNCHANGED <<key_order, issued, agentVars>>

UpdatesInit ==
    /\ documents_store = <<>>
    /\ key_order = <<>>
    /\ issued = {}
    /\ pc = [r \in Writers |-> "idle"]
    /\ req = [r \in Writers |-> NoRequest]
    /\ resp = [r \in Writers |-> NoResponse]
    /\ calls = [r \in Writers |-> <<>>]
    /\ call = NoCall
    /\ ret = Pending

UpdatesNext ==
    \/ \E r \in Writers : UploadReceiveOf(r, RacedUploads)
    \/ \E r \in Writers : UploadProcessWith(r, PlainUpstreams)
    \/ \E r \in Writers : SubmitUpdate(r)
    \/ \E r \in Writers : RunUpdate(r)

SpecUpdates == UpdatesInit /\ [][UpdatesNext]_vars

-----------------------------------------------------------------------------
(* Specification of uploads in flight among reads and edits: the uploads are *)
(* b.docx, whose entities are rolled back, and the upstream answers with a   *)
(* summary that passes the gate or with a 500, whose failure string does not *)

\* uploads of b.docx
PublishedUploads == {up \in Uploads : up.filename = <<"b",".","d","o","c","x">>}

PublishNext ==
    \/ \E r \in Writers : UploadReceiveOf(r, PublishedUploads)
    \/ \E r \in Writers : UploadProcessWith(r, AskUpstreams)
    \/ \E r \in Writers : GetSummary(r)
    \/ \E r \in Writers : UpdateSummary(r)
    \/ \E r \in Writers : AskQuestionWith(r, PlainUpstreams)

SpecPublish == UpdatesInit /\ [][PublishNext]_vars

-----------------------------------------------------------------------------
(* Specification of the agent methods with their observability record: Init  *)
(* draws one call and what the sink does with the record                     *)

\* what the sink does: no client, accepts, raises
Sinks ==
    {NoClient, SinkAccepts, SinkRaises("ConnectionError", <<"d","o","w","n">>),
     SinkRaises("RuntimeError", <<"b","o","o","m">>)}

LoggedValidateSummary ==
    /\ call.op = "validate_summary" /\ ret.done = FALSE
    /\ ret' = [done |-> TRUE, result |-> ValidateSummaryLogged(call.summary, call.sink)]
    /\ UNCHANGED <<call, apiVars>>

LoggedValidateEntities ==
    /\ call.op = "validate_entities" /\ ret.done = FALSE
    /\ ret' = [done |-> TRUE, result |-> ValidateEntitiesLogged(call.entities, call.sink)]
    /\ UNCHANGED <<call, apiVars>>

LoggedRollbackSummary ==
    /\ call.op = "rollback_summary" /\ ret.done = FALSE
    /\ ret' = [done |-> TRUE, result |-> RollbackSummaryLogged(call.sink)]
    /\ UNCHANGED <<call, apiVars>>

LoggedParse ==
    /\ call.op = "parse" /\ ret.done = FALSE
    /\ ret' = [done |-> TRUE, result |-> ParseLogged(call.file_path, call.file, call.sink)]
    /\ UNCHANGED <<call, apiVars>>

LoggedExtract ==
    /\ call.op = "extract" /\ ret.done = FALSE
    /\ \E result \in ExtractLogged(call.text, call.sink) :
          ret' = [done |-> TRUE, result |-> result]
    /\ UNCHANGED <<call, apiVars>>

LoggedSummarizeDocument ==
    /\ call.op = "summarize_document" /\ ret.done = FALSE
    /\ ret' = [done |-> TRUE,
               result |-> SummarizeDocumentLogged(call.text, call.upstream, call.sink)]
    /\ UNCHANGED <<call, apiVars>>

LoggedAsk ==
    /\ call.op = "ask" /\ ret.done = FALSE
    /\ ret' = [done |-> TRUE,
               result |-> AskLogged(call.question, call.doc_text, call.upstream,
                                    call.sink)]
    /\ UNCHANGED <<call, apiVars>>

LoggedEntityValidation ==
    /\ call.op = "entity_validate_entities" /\ ret.done = FALSE
    /\ ret' = [done |-> TRUE,
               result |-> EntityValidationLogged(call.text, call.entities, call.upstream,
                                                 call.sink)]
    /\ UNCHANGED <<call, apiVars>>

LoggedReviewSummary ==
    /\ call.op = "review_summary" /\ ret.done = FALSE
    /\ ret' = [done |-> TRUE,
               result |-> ReviewSummaryLogged(call.summary, call.upstream, call.sink)]
    /\ UNCHANGED <<call, apiVars>>

LoggingInit ==
    /\ ApiInit
    /\ \E sink \in Sinks :
        \/ \E s \in {None, <<>>, RollbackSummary, NoSummaryGenerated} :
               call = [op |-> "validate_summary", summary |-> s, sink |-> sink]
        \/ \E e \in EntityInputs :
               call = [op |-> "validate_entities", entities |-> e, sink |-> sink]
        \/ call = [op |-> "rollback_summary", sink |-> sink]
        \/ \E p \in PathInputs, f \in FileInputs :
               call = [op |-> "parse", file_path |-> p, file |-> f, sink |-> sink]
        \/ \E t \in {TextWithEntities, TextWithoutEntities} :
               call = [op |-> "extract", text |-> t, sink |-> sink]
        \/ \E t \in ReviewInputs, u \in UpstreamInputs :
               \/ call = [op |-> "summarize_document", text |-> t, upstream |-> u,
                          sink |-> sink]
               \/ call = [op |-> "review_summary", summary |-> t, upstream |-> u,
                          sink |-> sink]
        \/ \E q \in QuestionInputs, d \in DocTextInputs, u \in UpstreamInputs :
               call = [op |-> "ask", question |-> q, doc_text |-> d, upstream |-> u,
                       sink |-> sink]
        \/ \E e \in EntityInputs, u \in UpstreamInputs :
               call = [op |-> "entity_validate_entities", text |-> TextWithEntities,
                       entities |-> e, upstream |-> u, sink |-> sink]
    /\ ret = Pending

LoggingNext ==
    \/ LoggedValidateSummary
    \/ LoggedValidateEntities
    \/ LoggedRollbackSummary
    \/ LoggedParse
    \/ LoggedExtract
    \/ LoggedSummarizeDocument
    \/ LoggedAsk
    \/ LoggedEntityValidation
    \/ LoggedReviewSummary

SpecLogging == LoggingInit /\ [][LoggingNext]_vars

-----------------------------------------------------------------------------
(* Specification of chunk_text: Init draws the arguments, one action per     *)
(* part of the method                                                        *)

\* the texts chunk_text is applied to
ChunkTexts == StringsUpTo({"a", " ", "."}, MaxChunkTextLen)

\* lines 141 to 145: the early return, or the loop is entered at start = 0
ChunkTextEnter ==
    /\ call.op = "chunk_text" /\ ret = Pending
    /\ ret' = IF call.text = <<>> \/ Len(call.text) <= call.chunk_size
              THEN [done |-> TRUE, start |-> 0, iterations |-> 0,
                    chunks |-> IF call.text # <<>> THEN <<call.text>> ELSE <<>>]
              ELSE [done |-> FALSE, start |-> 0, iterations |-> 0, chunks |-> <<>>]
    /\ UNCHANGED <<call, apiVars>>

\* one iteration of the while loop, lines 147 to 172
ChunkTextIterate ==
    /\ call.op = "chunk_text" /\ ret # Pending /\ ~ret.done
    /\ ret.start < Len(call.text)
    /\ ret.iterations < MaxIterations
    /\ LET end == ChunkEnd(call.text, ret.start, call.chunk_size)
           chunk == Strip(Slice(call.text, ret.start, end))
       IN  ret' = [done |-> FALSE,
                   start |-> NextStart(call.text, ret.start, end, call.overlap),
                   iterations |-> ret.iterations + 1,
                   chunks |-> IF chunk # <<>> THEN Append(ret.chunks, chunk)
                              ELSE ret.chunks]
    /\ UNCHANGED <<call, apiVars>>

\* the loop condition fails: return chunks
ChunkTextReturn ==
    /\ call.op = "chunk_text" /\ ret # Pending /\ ~ret.done
    /\ ret.start >= Len(call.text)
    /\ ret' = [ret EXCEPT !.done = TRUE]
    /\ UNCHANGED <<call, apiVars>>

ChunksInit ==
    /\ ApiInit
    /\ \E text \in ChunkTexts, chunk_size \in 1..MaxChunkSize :
         \E overlap \in 0..(chunk_size - 1) :
            call = [op |-> "chunk_text", text |-> text, chunk_size |-> chunk_size,
                    overlap |-> overlap]
    /\ ret = Pending

ChunksNext ==
    \/ ChunkTextEnter
    \/ ChunkTextIterate
    \/ ChunkTextReturn

SpecChunks == ChunksInit /\ [][ChunksNext]_vars

-----------------------------------------------------------------------------
(* Specification of the entity check on stored documents: uploads, and       *)
(* EntityAgent.validate_entities called with the text and the entities dict  *)
(* of a stored document                                                      *)

\* validate_entities(doc["text"], doc["entities"]) for a stored document whose
\* entities are an EntitySet; the dict passed is the stored object itself
ValidateStoredEntities ==
    \E doc_id \in DOMAIN documents_store, upstream \in UpstreamInputs :
        LET doc == documents_store[doc_id]
        IN  /\ "names" \in DOMAIN doc.entities
            /\ call' = [op |-> "entity_validate_entities", doc_id |-> doc_id,
                        text |-> doc.text, entities |-> doc.entities,
                        upstream |-> upstream]
            /\ ret' = [done |-> TRUE,
                       posts |-> EntityValidationPosts(doc.text, doc.entities),
                       result |-> EntityValidation(doc.text, doc.entities, upstream)]
            /\ documents_store' =
                  [documents_store EXCEPT
                      ![doc_id].entities = EntitiesAfterValidation(doc.entities, upstream)]
            /\ UNCHANGED <<key_order, issued, pc, req, resp, calls>>

AdvisoryNext ==
    \/ \E r \in Reqs : UploadReceiveOf(r, PlainUploads)
    \/ \E r \in Reqs : UploadProcessWith(r, PlainUpstreams)
    \/ ValidateStoredEntities

SpecAdvisory == Init /\ [][AdvisoryNext]_vars

-----------------------------------------------------------------------------
(* Claims *)

\* number of tokens of s: the positions where a non-whitespace run starts
WordStarts(s) ==
    Cardinality({i \in 1..Len(s) :
        s[i] \notin Whitespace /\ (i = 1 \/ s[i - 1] \in Whitespace)})

\* C1: validate_summary(text) is True exactly when text is a non-empty string
\* with strictly more than 5 whitespace-delimited tokens; None, the empty
\* string and 1 to 5 tokens give False, 6 or more give True.
C1_ValidateSummaryIffMoreThanFive ==
    (call.op = "validate_summary" /\ ret.done) =>
        /\ ret.raised = FALSE
        /\ ret.value = (call.summary # None /\ WordStarts(call.summary) > 5)

\* a summary of exactly six tokens was accepted
C1_Witness ==
    /\ call.op = "validate_summary" /\ ret.done
    /\ call.summary # None
    /\ WordStarts(call.summary) = 6
    /\ ret.value = TRUE

\* C2: ValidationAgent.validate_entities is True exactly when at least one of
\* names, dates, organizations is non-empty; all three empty gives False.
C2_ValidateEntitiesIffSomeCategory ==
    (call.op = "validate_entities" /\ ret.done) =>
        /\ ret.raised = FALSE
        /\ ret.value = (\/ call.entities.names # <<>>
                        \/ call.entities.dates # <<>>
                        \/ call.entities.organizations # <<>>)

\* an EntitySet whose only non-empty category is organizations was accepted
C2_Witness ==
    /\ call.op = "validate_entities" /\ ret.done
    /\ call.entities.names = <<>>
    /\ call.entities.dates = <<>>
    /\ call.entities.organizations # <<>>
    /\ ret.value = TRUE

\* the last n characters of s are suffix
HasSuffix(s, suffix) ==
    /\ Len(s) >= Len(suffix)
    /\ \A i \in 1..Len(suffix) : s[Len(s) - Len(suffix) + i] = suffix[i]

SupportedSuffix(path) ==
    HasSuffix(path, PdfSuffix) \/ HasSuffix(path, DocxSuffix) \/ HasSuffix(path, HtmlSuffix)

\* C7: ParserAgent.parse raises UnsupportedFileFormatError for every path not
\* ending in .pdf, .docx or .html, without opening the file; a path with one
\* of the three suffixes goes to exactly the branch of that suffix.
C7_ParseDispatchBySuffix ==
    (call.op = "parse" /\ ret.done) =>
        LET r == ret.result
            p == call.file_path
        IN  /\ ~SupportedSuffix(p) =>
                  /\ r.raised /\ r.cls = "UnsupportedFileFormatError"
                  /\ r.opened = FALSE /\ r.branch = "none"
            /\ HasSuffix(p, PdfSuffix) => r.branch = "pdf" /\ r.cls # "UnsupportedFileFormatError"
            /\ HasSuffix(p, DocxSuffix) => r.branch = "docx" /\ r.cls # "UnsupportedFileFormatError"
            /\ HasSuffix(p, HtmlSuffix) => r.branch = "html" /\ r.cls # "UnsupportedFileFormatError"

\* a path that holds ".pdf" without ending in it was refused unopened
C7_Witness ==
    /\ call.op = "parse" /\ ret.done
    /\ Contains(call.file_path, PdfSuffix) /\ ~SupportedSuffix(call.file_path)
    /\ ret.result.raised /\ ret.result.cls = "UnsupportedFileFormatError"
    /\ ret.result.opened = FALSE

\* C8: a failure inside the PDF, DOCX or HTML branch is raised again as
\* DocumentParsingError whose message is the branch's prefix followed by the
\* cause's message; never UnsupportedFileFormatError, never the cause itself.
C8_BranchFailureIsDocumentParsingError ==
    (call.op = "parse" /\ ret.done /\ SupportedSuffix(call.file_path) /\ call.file.fails) =>
        LET r == ret.result
        IN  /\ r.raised /\ r.cls = "DocumentParsingError"
            /\ r.msg = (CASE r.branch = "pdf" -> FailedParsingPdf
                          [] r.branch = "docx" -> FailedParsingDocx
                          [] r.branch = "html" -> FailedParsingHtml
                          [] OTHER -> <<>>) \o call.file.msg
            /\ r.branch # "none"

\* reading an .html file failed with a decode error and came out as DocumentParsingError
C8_Witness ==
    /\ call.op = "parse" /\ ret.done
    /\ HasSuffix(call.file_path, HtmlSuffix)
    /\ call.file.fails /\ call.file.cls = "UnicodeDecodeError"
    /\ ret.result.raised /\ ret.result.cls = "DocumentParsingError"

\* C10: SummarizerAgent._call_llm never raises; a non-200 answer with body B
\* gives "Summarization failed: " + B, an exception of requests.post (network,
\* timeout) a string starting "Summarization failed due to network error: ",
\* any other exception, a malformed 200 body included, a string starting
\* "Summarization failed due to unexpected error: ".
C10_CallLlmFailureStrings ==
    (call.op = "_call_llm" /\ ret.done) =>
        LET r == ret.result
            u == call.upstream
        IN  /\ r.raised = FALSE
            /\ (u.kind = "response" /\ u.status_code # 200) =>
                  r.value = SummarizationFailed \o u.text
            /\ (u.kind = "raise" /\ u.cls \in RequestExceptionClasses) =>
                  StartsWith(r.value, SummarizationNetworkError)
            /\ (\/ u.kind = "raise" /\ u.cls \notin RequestExceptionClasses
                \/ u.kind = "response" /\ u.status_code = 200 /\ u.shape # "chat") =>
                  StartsWith(r.value, SummarizationUnexpectedError)

-----------------------------------------------------------------------------
(* Claims about the language-model agents *)

\* s without its leading and trailing whitespace: from the first to the last
\* character that is not whitespace
Trimmed(s) ==
    LET solid == {i \in 1..Len(s) : s[i] \notin Whitespace}
    IN  IF solid = {} THEN <<>>
        ELSE SubSeq(s, CHOOSE i \in solid : \A j \in solid : i <= j,
                       CHOOSE i \in solid : \A j \in solid : i >= j)

Blank(s) == \A i \in 1..Len(s) : s[i] \in Whitespace

\* the upstream answered 200 with a well-formed chat completion
AnsweredChat(u) == u.kind = "response" /\ u.status_code = 200 /\ u.shape = "chat"

\* C11: on a 200 whose content is empty after trimming, _call_llm returns
\* exactly "No summary generated." and ask returns exactly "No relevant answer
\* found."; on non-empty trimmed content each returns exactly the trimmed content.
C11_EmptyOutputSentinel ==
    /\ (call.op = "_call_llm" /\ ret.done /\ AnsweredChat(call.upstream)) =>
          /\ ~ret.result.raised
          /\ ret.result.value = (IF Blank(call.upstream.content) THEN NoSummaryGenerated
                                  ELSE Trimmed(call.upstream.content))
    /\ (call.op = "ask" /\ ret.done /\ AnsweredChat(call.upstream)
            /\ ~Blank(call.question) /\ ~Blank(call.doc_text)) =>
          /\ ~ret.result.raised
          /\ ret.result.value = (IF Blank(call.upstream.content) THEN NoRelevantAnswer
                                  ELSE Trimmed(call.upstream.content))

\* ask got a whitespace-only answer and returned the sentinel
C11_Witness ==
    /\ call.op = "ask" /\ ret.done /\ AnsweredChat(call.upstream)
    /\ ~Blank(call.question) /\ ~Blank(call.doc_text)
    /\ call.upstream.content # <<>> /\ Blank(call.upstream.content)
    /\ ret.result.value = NoRelevantAnswer

\* the first n characters of s, all of s when it is shorter
FirstChars(s, n) == [i \in 1..(IF Len(s) < n THEN Len(s) ELSE n) |-> s[i]]

\* the prompt line of a summarize_section or summarize_document call
PromptOf(op) ==
    IF op = "summarize_section" THEN SummarizeSectionPrompt ELSE SummarizeDocumentPrompt

\* C12 as stated: the content summarize_section and summarize_document forward
\* carries exactly the first 4000 characters of text (all of text when it is
\* shorter) and nothing of text beyond character 4000.
C12_First4000OfText ==
    (call.op \in {"summarize_section", "summarize_document"} /\ ret.done) =>
        /\ Len(ret.posts) = 1
        /\ ret.posts[1].user = PromptOf(call.op) \o FirstChars(call.text, 4000)

\* C12 amended: the cut is made on the prompt line followed by text, so the
\* content forwarded is the prompt line and the first 4000 - len(prompt line)
\* characters of text (all of text when it is shorter), nothing beyond.
C12_First4000OfPromptAndText ==
    (call.op \in {"summarize_section", "summarize_document"} /\ ret.done) =>
        /\ Len(ret.posts) = 1
        /\ ret.posts[1].user =
              PromptOf(call.op) \o FirstChars(call.text, 4000 - Len(PromptOf(call.op)))
        /\ Len(ret.posts[1].user) <= 4000

\* a text of 4000 characters was forwarded short of its last characters
C12_Witness ==
    /\ call.op = "summarize_document" /\ ret.done
    /\ Len(call.text) = 4000
    /\ Len(ret.posts[1].user) = 4000
    /\ ret.posts[1].user[4000] = call.text[4000 - Len(SummarizeDocumentPrompt)]

\* where document i of texts starts in the content of a corpus call, less one
RECURSIVE CorpusOffset(_, _)
CorpusOffset(texts, i) ==
    IF i = 1 THEN Len(SummarizeCorpusPrompt)
    ELSE CorpusOffset(texts, i - 1) + Len(texts[i - 1]) + 2

\* length of the prompt line followed by the joined documents
CorpusLength(texts) ==
    IF texts = <<>> THEN Len(SummarizeCorpusPrompt)
    ELSE CorpusOffset(texts, Len(texts)) + Len(texts[Len(texts)])

\* C13 as stated: summarize_corpus joins the documents in order with a blank
\* line between them and forwards the joined content untruncated, so every
\* document's text reaches the model.
C13_CorpusUntruncated ==
    (call.op = "summarize_corpus" /\ ret.done) =>
        LET user == ret.posts[1].user
            texts == call.texts
        IN  /\ Len(ret.posts) = 1
            /\ Len(user) = CorpusLength(texts)
            /\ \A i \in 1..Len(texts) :
                  SubSeq(user, CorpusOffset(texts, i) + 1,
                         CorpusOffset(texts, i) + Len(texts[i])) = texts[i]

\* C13 amended: summarize_corpus joins the documents in order with a blank
\* line between them after the prompt line, and forwards the first 4000
\* characters of that: the same cut as for section and document calls, so a
\* document reaches the model as far as it lies within those 4000 characters.
C13_CorpusJoinedThenCut ==
    (call.op = "summarize_corpus" /\ ret.done) =>
        LET user == ret.posts[1].user
            texts == call.texts
        IN  /\ Len(ret.posts) = 1
            /\ Len(user) = (IF CorpusLength(texts) < 4000 THEN CorpusLength(texts) ELSE 4000)
            /\ \A k \in 1..Len(SummarizeCorpusPrompt) : user[k] = SummarizeCorpusPrompt[k]
            /\ \A i \in 1..Len(texts) :
                  /\ \A k \in 1..Len(texts[i]) :
                        CorpusOffset(texts, i) + k <= Len(user) =>
                            user[CorpusOffset(texts, i) + k] = texts[i][k]
                  /\ \A k \in 1..2 :
                        (i > 1 /\ CorpusOffset(texts, i) - 2 + k <= Len(user)) =>
                            user[CorpusOffset(texts, i) - 2 + k] = "\n"

\* of three documents the second was cut and the third did not reach the model
C13_Witness ==
    /\ call.op = "summarize_corpus" /\ ret.done
    /\ Len(call.texts) = 3
    /\ Len(ret.posts[1].user) = 4000
    /\ CorpusOffset(call.texts, 2) < 4000
    /\ CorpusOffset(call.texts, 3) >= 4000

\* C15: ask makes no upstream call when an input is empty or whitespace-only:
\* such a question returns exactly "No question provided." (also when the
\* document is empty too); a real question with such a document returns
\* exactly "No document content available.".
C15_AskRejectsBlankInputs ==
    (call.op = "ask" /\ ret.done) =>
        /\ Blank(call.question) =>
              /\ ret.posts = <<>>
              /\ ~ret.result.raised /\ ret.result.value = NoQuestionProvided
        /\ (~Blank(call.question) /\ Blank(call.doc_text)) =>
              /\ ret.posts = <<>>
              /\ ~ret.result.raised /\ ret.result.value = NoDocumentContent
        /\ (~Blank(call.question) /\ ~Blank(call.doc_text)) => Len(ret.posts) = 1

\* a real question about a whitespace-only document was refused without a call
C15_Witness ==
    /\ call.op = "ask" /\ ret.done
    /\ ~Blank(call.question)
    /\ call.doc_text # <<>> /\ Blank(call.doc_text)
    /\ ret.posts = <<>>
    /\ ret.result.value = NoDocumentContent

\* requests.exceptions.Timeout and its subclasses
TimeoutClasses == {"Timeout", "ReadTimeout", "ConnectTimeout"}

\* the kind of transport failure an upstream outcome is ("none" for a good answer)
FailureKind(u) ==
    IF u.kind = "response"
    THEN IF u.status_code # 200 THEN "status"
         ELSE IF u.shape = "chat" THEN "none" ELSE "unexpected"
    ELSE IF u.cls \in TimeoutClasses THEN "timeout"
    ELSE IF u.cls \in RequestExceptionClasses THEN "network"
    ELSE "unexpected"

\* C16: for ask, each of the four transport failure kinds (non-200 status,
\* network error, timeout, unexpected exception) gives a result string that no
\* failure of another kind gives, and none leaves ask as an exception.
C16_AskFailureKindsDistinct ==
    (call.op = "ask" /\ ret.done /\ ret.posts # <<>>
        /\ FailureKind(call.upstream) # "none") =>
        /\ ~ret.result.raised
        /\ \A other \in UpstreamInputs :
              FailureKind(other) \notin {"none", FailureKind(call.upstream)} =>
                  Ask(call.question, call.doc_text, other).value # ret.result.value

\* the operations that post to the language model
LlmOps ==
    {"summarize_section", "summarize_document", "summarize_corpus", "ask",
     "entity_validate_entities", "review_summary"}

\* C17: every outbound language-model call (_call_llm, ask, EntityAgent's
\* validate_entities, review_summary) is posted with timeout 30 and once per
\* operation, and a timeout or connection failure comes back as a result
\* value, not as an exception.
C17_EveryCallTimedAndDegrading ==
    (call.op \in LlmOps /\ ret.done) =>
        /\ Len(ret.posts) <= 1
        /\ (call.op # "ask" \/ (~Blank(call.question) /\ ~Blank(call.doc_text))) =>
              Len(ret.posts) = 1
        /\ \A n \in DOMAIN ret.posts :
              "timeout" \in DOMAIN ret.posts[n] /\ ret.posts[n].timeout = 30
        /\ FailureKind(call.upstream) \in {"timeout", "network"} => ~ret.result.raised

-----------------------------------------------------------------------------
(* Claims about the upload handler *)

\* slot r completes an upload in this step, answering 200
UploadStored(r) ==
    /\ pc[r] = "reading" /\ pc'[r] = "done"
    /\ resp'[r].status_code = 200

\* slot r answers an upload with an error in this step
UploadFailed(r) ==
    /\ req'[r].op = "upload" /\ pc'[r] = "done"
    /\ resp'[r].status_code # 200
    /\ <<pc[r], req[r], resp[r]>> # <<pc'[r], req'[r], resp'[r]>>

\* C3: when the summarizer's output fails validate_summary, upload_document
\* stores and returns exactly "Summary rolled back due to low quality."; when
\* it passes, it stores and returns the summarizer's output unchanged.
C3_SummaryGate ==
    [][\A r \in Reqs :
        UploadStored(r) =>
            LET out == req'[r].summarizer_output
                summary == IF ValidateSummary(out) THEN out ELSE RollbackSummary
            IN  /\ resp'[r].body.summary = summary
                /\ documents_store'[req'[r].doc_id].summary = summary]_vars

\* an upload whose summarizer output failed validation holds the rollback text,
\* in the response and in the store
C3_Witness ==
    \E r \in Reqs :
        /\ pc[r] = "done" /\ req[r].op = "upload" /\ resp[r].status_code = 200
        /\ ~ValidateSummary(req[r].summarizer_output)
        /\ req[r].summarizer_output # RollbackSummary
        /\ resp[r].body.summary = RollbackSummary
        /\ documents_store[req[r].doc_id].summary = RollbackSummary

\* a three-category EntitySet with at least one non-empty category
FilledEntitySet(e) ==
    /\ DOMAIN e = {"names", "dates", "organizations"}
    /\ \E k \in DOMAIN e : e[k] # <<>>

\* exactly {"error": "Entities rolled back due to low confidence."}
RolledBackEntities(e) ==
    /\ DOMAIN e = {"error"}
    /\ e["error"] = RollbackEntities

\* C4: the entities an upload stores and returns are either an EntitySet of the
\* three categories with at least one of them non-empty, or exactly the record
\* {"error": "Entities rolled back due to low confidence."}; never an all-empty
\* EntitySet, never a mix of the two shapes.
C4_EntitiesShape ==
    /\ \A d \in DOMAIN documents_store :
          LET e == documents_store[d].entities
          IN  FilledEntitySet(e) \/ RolledBackEntities(e)
    /\ \A r \in Reqs :
          (req[r].op = "upload" /\ pc[r] = "done" /\ resp[r].status_code = 200) =>
              LET e == resp[r].body.entities
              IN  /\ FilledEntitySet(e) \/ RolledBackEntities(e)
                  /\ RolledBackEntities(e) <=>
                        (\A k \in DOMAIN req[r].extracted : req[r].extracted[k] = <<>>)

\* an upload whose text holds no entity is stored with the error record
C4_Witness ==
    \E r \in Reqs :
        /\ req[r].op = "upload" /\ pc[r] = "done" /\ resp[r].status_code = 200
        /\ req[r].extracted = [names |-> <<>>, dates |-> <<>>, organizations |-> <<>>]
        /\ resp[r].body.entities = [error |-> RollbackEntities]
        /\ documents_store[req[r].doc_id].entities = [error |-> RollbackEntities]

\* the calls of a log that are not rollback substitutions
RECURSIVE WithoutRollbacks(_)
WithoutRollbacks(log) ==
    IF log = <<>> THEN <<>>
    ELSE IF Head(log) \in {"rollback_summary", "rollback_entities"}
         THEN WithoutRollbacks(Tail(log))
         ELSE <<Head(log)>> \o WithoutRollbacks(Tail(log))

Occurrences(log, name) == Cardinality({n \in DOMAIN log : log[n] = name})

\* C5: one successful upload calls parse, summarize, validate summary, extract,
\* validate entities and then stores, in that order; the summarizer and the
\* extractor are each called exactly once, a failed validation included.
C5_PipelineOnceInOrder ==
    \A r \in Reqs :
        (req[r].op = "upload" /\ pc[r] = "done" /\ resp[r].status_code = 200) =>
            /\ WithoutRollbacks(calls[r]) =
                  <<"parse", "summarize_document", "validate_summary", "extract",
                    "validate_entities", "store">>
            /\ Occurrences(calls[r], "summarize_document") = 1
            /\ Occurrences(calls[r], "extract") = 1
            /\ Occurrences(calls[r], "rollback_summary") =
                  (IF ValidateSummary(req[r].summarizer_output) THEN 0 ELSE 1)
            /\ Occurrences(calls[r], "rollback_entities") =
                  (IF ValidateEntities(req[r].extracted) THEN 0 ELSE 1)

\* an upload that failed both validations made each agent call once
C5_Witness ==
    \E r \in Reqs :
        /\ req[r].op = "upload" /\ pc[r] = "done" /\ resp[r].status_code = 200
        /\ ~ValidateSummary(req[r].summarizer_output)
        /\ ~ValidateEntities(req[r].extracted)
        /\ calls[r] = <<"parse", "summarize_document", "validate_summary",
                        "rollback_summary", "extract", "validate_entities",
                        "rollback_entities", "store">>

\* C6: an upload whose filename does not end in .pdf, .docx or .html is
\* answered with UnsupportedFileFormatError before anything else happens: no
\* agent is called, no doc_id is generated, documents_store is unchanged.
C6_UnsupportedRejectedFirst ==
    /\ [](\A r \in Reqs :
            (req[r].op = "upload" /\ ~SupportedSuffix(req[r].filename)) =>
                /\ pc[r] = "done"
                /\ resp[r] = ErrorResponse(415, "Unsupported File Format",
                                           UnsupportedFileFormat,
                                           "unsupported_file_format_error")
                /\ calls[r] = <<>>
                /\ req[r].doc_id = None)
    /\ [][\A r \in Reqs :
            (UploadFailed(r) /\ ~SupportedSuffix(req'[r].filename)) =>
                /\ issued' = issued
                /\ documents_store' = documents_store]_vars

\* "a.pdf.txt" was refused while a document was stored
C6_Witness ==
    \E r \in Reqs :
        /\ req[r].op = "upload" /\ pc[r] = "done"
        /\ Contains(req[r].filename, PdfSuffix) /\ ~SupportedSuffix(req[r].filename)
        /\ resp[r].status_code = 415
        /\ documents_store # <<>>

\* C9: a failed upload is answered with the tag of its error kind
\* (unsupported_file_format_error with 415, document_parsing_error with 422),
\* and a record is created only on a successful parse: when the parse fails
\* no summarizer or extractor call is made and documents_store is unchanged.
C9_FailedUploadTagged ==
    /\ [](\A r \in Reqs :
            (req[r].op = "upload" /\ pc[r] = "done") =>
                /\ ~SupportedSuffix(req[r].filename) =>
                      /\ resp[r].status_code = 415
                      /\ resp[r].body.type = "unsupported_file_format_error"
                /\ (SupportedSuffix(req[r].filename) /\ req[r].file.fails) =>
                      /\ resp[r].status_code = 422
                      /\ resp[r].body.type = "document_parsing_error"
                      /\ calls[r] = <<"parse">>
                      /\ req[r].doc_id \notin DOMAIN documents_store
                /\ resp[r].status_code = 200 =>
                      /\ SupportedSuffix(req[r].filename) /\ ~req[r].file.fails
                      /\ req[r].doc_id \in DOMAIN documents_store)
    /\ [][\A r \in Reqs :
            UploadFailed(r) => documents_store' = documents_store]_vars

\* an upload failed to parse and was answered 422 while another document was stored
C9_Witness ==
    \E r \in Reqs :
        /\ req[r].op = "upload" /\ pc[r] = "done"
        /\ req[r].file.fails
        /\ resp[r].status_code = 422 /\ resp[r].body.type = "document_parsing_error"
        /\ documents_store # <<>>

\* slot r holds an answered upload whose file was accepted and parsed
UploadParsed(r) ==
    /\ req[r].op = "upload" /\ pc[r] = "done"
    /\ SupportedSuffix(req[r].filename) /\ ~req[r].file.fails

\* the string the summarizer returns for a failed upstream call
FailureString(u) ==
    IF u.kind = "response" THEN SummarizationFailed \o u.text
    ELSE SummarizationNetworkError \o u.msg

\* C14 as stated: when the upstream summarization call fails during an upload
\* (non-200 status, network error or timeout), the upload still completes with
\* a success response and a stored record, and the summary of response and
\* record is the summarizer's failure string.
C14_FailureStringIsSummary ==
    \A r \in Reqs :
        UploadParsed(r) =>
            /\ resp[r].status_code = 200
            /\ req[r].doc_id \in DOMAIN documents_store
            /\ FailureKind(req[r].upstream) \in {"status", "network", "timeout"} =>
                  resp[r].body.summary = FailureString(req[r].upstream)

\* C14 amended: such an upload still completes with a success response and a
\* stored record; the summary of both is the summarizer's failure string when
\* that string has more than five whitespace-separated tokens, and otherwise
\* "Summary rolled back due to low quality.".
C14_FailureStringPassesGate ==
    /\ [](\A r \in Reqs :
            UploadParsed(r) =>
                /\ resp[r].status_code = 200
                /\ req[r].doc_id \in DOMAIN documents_store
                /\ FailureKind(req[r].upstream) \in {"status", "network", "timeout"} =>
                      resp[r].body.summary =
                          (IF WordStarts(FailureString(req[r].upstream)) > 5
                           THEN FailureString(req[r].upstream) ELSE RollbackSummary))
    /\ [][\A r \in Reqs :
            (UploadStored(r)
                /\ FailureKind(req'[r].upstream) \in {"status", "network", "timeout"}) =>
                documents_store'[req'[r].doc_id].summary = resp'[r].body.summary]_vars

\* an upload whose summarization timed out answered 200 with the failure string
C14_Witness ==
    \E r \in Reqs :
        /\ UploadParsed(r) /\ resp[r].status_code = 200
        /\ FailureKind(req[r].upstream) = "timeout"
        /\ resp[r].body.summary = SummarizationNetworkError \o req[r].upstream.msg
        /\ documents_store[req[r].doc_id].summary = resp[r].body.summary

-----------------------------------------------------------------------------
(* Claims about the documents and their summaries *)

\* slot r answers a request in this step
Answers(r) ==
    /\ pc'[r] = "done"
    /\ <<pc[r], req[r], resp[r]>> # <<pc'[r], req'[r], resp'[r]>>

\* slot r answers an update_summary with 200 in this step
UpdateApplied(r) ==
    Answers(r) /\ req'[r].op = "update_summary" /\ resp'[r].status_code = 200

\* slot r answers a get_summary with 200 in this step
SummaryRead(r) ==
    Answers(r) /\ req'[r].op = "get_summary" /\ resp'[r].status_code = 200

\* C18: update_summary(doc_id, s) on an existing document overwrites the
\* summary in place: get_summary(doc_id) then returns exactly s until the next
\* update, no prior summary is retained, and the document's filename, text and
\* entities and every other document's record are unchanged.
C18_UpdateOverwritesInPlace ==
    /\ [][\A r \in Reqs :
            UpdateApplied(r) =>
                /\ req'[r].doc_id \in DOMAIN documents_store
                /\ documents_store' =
                      [documents_store EXCEPT
                          ![req'[r].doc_id].summary = req'[r].updated_summary]
                /\ resp'[r].body.summary = req'[r].updated_summary]_vars
    /\ [][\A r \in Reqs :
            SummaryRead(r) =>
                /\ resp'[r].body.summary = documents_store[req'[r].doc_id].summary
                /\ documents_store' = documents_store]_vars
    /\ [][\A d \in DOMAIN documents_store :
            documents_store'[d].summary # documents_store[d].summary =>
                \E r \in Reqs : UpdateApplied(r) /\ req'[r].doc_id = d]_vars

\* get_summary returns the edited summary "ok" of one document while another
\* document still has the summary of its upload
C18_Witness ==
    \E r \in Reqs, other \in DOMAIN documents_store :
        /\ pc[r] = "done" /\ req[r].op = "get_summary" /\ resp[r].status_code = 200
        /\ resp[r].body.summary \in UpdatedSummaries
        /\ other # req[r].doc_id
        /\ documents_store[other].summary \notin UpdatedSummaries
        /\ documents_store[req[r].doc_id].text # <<>>

\* C19: under any interleaving of concurrent update_summary requests to the
\* same existing doc_id the race is last-write-wins: the stored summary equals
\* exactly the value submitted by the request whose write ran last, never a
\* merge or a value nobody submitted, and every request reports success.
C19_LastWriteWins ==
    /\ [][\A r \in Writers :
            (pc[r] = "pending" /\ pc'[r] # "pending") =>
                /\ pc'[r] = "done" /\ resp'[r].status_code = 200
                /\ resp'[r].body.summary = req[r].updated_summary
                /\ documents_store' =
                      [documents_store EXCEPT
                          ![req[r].doc_id].summary = req[r].updated_summary]]_vars
    /\ [](\A r \in Writers :
            (pc[r] = "done" /\ req[r].op = "update_summary") =>
                documents_store[req[r].doc_id].summary = req[r].updated_summary)
    /\ [][\A d \in DOMAIN documents_store :
            documents_store'[d].summary # documents_store[d].summary =>
                \E r \in Writers :
                    /\ pc[r] = "pending" /\ pc'[r] = "done" /\ req[r].doc_id = d
                    /\ documents_store'[d].summary = req[r].updated_summary]_vars

\* two requests raced for one document: the write of one has run and is
\* stored, the other, with a different summary, is still to run
C19_Witness ==
    \E r \in Writers, w \in Writers :
        /\ pc[r] = "done" /\ req[r].op = "update_summary" /\ resp[r].status_code = 200
        /\ pc[w] = "pending" /\ req[w].doc_id = req[r].doc_id
        /\ req[w].updated_summary # req[r].updated_summary
        /\ documents_store[req[r].doc_id].summary = req[r].updated_summary

\* C20: across any sequence of API operations a document record once created
\* is never removed and its filename and text never change; each successful
\* upload adds exactly one record under a freshly generated identifier and
\* never overwrites an existing record.
C20_RecordsKept ==
    /\ [][\A d \in DOMAIN documents_store :
            /\ d \in DOMAIN documents_store'
            /\ documents_store'[d].filename = documents_store[d].filename
            /\ documents_store'[d].text = documents_store[d].text]_vars
    /\ [][\A r \in Reqs :
            UploadStored(r) =>
                /\ req[r].doc_id \notin DOMAIN documents_store
                /\ DOMAIN documents_store' = DOMAIN documents_store \cup {req[r].doc_id}
                /\ \A d \in DOMAIN documents_store :
                      documents_store'[d] = documents_store[d]]_vars
    /\ [][DOMAIN documents_store' # DOMAIN documents_store =>
            \E r \in Reqs : UploadStored(r)]_vars
    /\ [][\A r \in Reqs :
            (pc[r] # "reading" /\ pc'[r] = "reading") =>
                req'[r].doc_id \notin issued \cup DOMAIN documents_store]_vars

\* two documents are stored, one of them edited since, and the request
\* answered last was a question, a save or a search
C20_Witness ==
    /\ Cardinality(DOMAIN documents_store) = 2
    /\ \E d \in DOMAIN documents_store : documents_store[d].summary \in UpdatedSummaries
    /\ \E r \in Reqs :
          /\ pc[r] = "done" /\ resp[r].status_code = 200
          /\ req[r].op \in {"ask_question", "save_document", "search_docs"}

-----------------------------------------------------------------------------
(* Claims about search_docs *)

\* query occurs in text at position i when letters are compared without case
OccursAt(text, query, i) ==
    /\ i + Len(query) - 1 <= Len(text)
    /\ \A j \in 1..Len(query) : LowerChar(text[i + j - 1]) = LowerChar(query[j])

\* the elements of a list
Elements(list) == {list[i] : i \in 1..Len(list)}

\* slot r answers a search_docs in this step
SearchAnswered(r) == Answers(r) /\ req'[r].op = "search_docs"

\* C21: search_docs(query) returns exactly the (doc_id, filename) pairs of the
\* stored documents whose text contains query as a substring when both are
\* compared case-insensitively, none omitted and none added, and leaves
\* documents_store unchanged.
C21_SearchExact ==
    [][\A r \in Reqs :
        SearchAnswered(r) =>
            LET results == resp'[r].body.results
                query == req'[r].query
            IN  /\ resp'[r].status_code = 200
                /\ resp'[r].body.query = query
                /\ Elements(results) =
                      {[doc_id |-> d, filename |-> documents_store[d].filename] :
                          d \in {e \in DOMAIN documents_store :
                                    \E i \in 1..(Len(documents_store[e].text) + 1) :
                                        OccursAt(documents_store[e].text, query, i)}}
                /\ Cardinality(Elements(results)) = Len(results)
                /\ documents_store' = documents_store]_vars

\* a search for "AL B" found one of two stored documents, the one with "Al Bo"
C21_Witness ==
    \E r \in Reqs :
        /\ pc[r] = "done" /\ req[r].op = "search_docs"
        /\ req[r].query = <<"A","L"," ","B">>
        /\ Len(resp[r].body.results) = 1
        /\ Cardinality(DOMAIN documents_store) = 2
        /\ Contains(documents_store[resp[r].body.results[1].doc_id].text, <<"A","l"," ","B">>)

-----------------------------------------------------------------------------
(* Claims about the observability record *)

\* two outcomes of a method are the same return value or the same exception
SameOutcome(a, b) ==
    /\ a.raised = b.raised /\ a.cls = b.cls /\ a.msg = b.msg
    /\ ~a.raised => a.value = b.value

\* what the call c returns when the sink does as `sink`
OutcomesWith(c, sink) ==
    CASE c.op = "validate_summary" -> {ValidateSummaryLogged(c.summary, sink)}
      [] c.op = "validate_entities" -> {ValidateEntitiesLogged(c.entities, sink)}
      [] c.op = "rollback_summary" -> {RollbackSummaryLogged(sink)}
      [] c.op = "parse" -> {ParseLogged(c.file_path, c.file, sink)}
      [] c.op = "extract" -> ExtractLogged(c.text, sink)
      [] c.op = "summarize_document" -> {SummarizeDocumentLogged(c.text, c.upstream, sink)}
      [] c.op = "ask" -> {AskLogged(c.question, c.doc_text, c.upstream, sink)}
      [] c.op = "entity_validate_entities" ->
             {EntityValidationLogged(c.text, c.entities, c.upstream, sink)}
      [] c.op = "review_summary" -> {ReviewSummaryLogged(c.summary, c.upstream, sink)}

\* C22: emitting an observability record never fails the calling agent
\* operation: if the sink raises while log_agent_action runs, the exception
\* is absorbed and the operation returns the result it would have returned
\* with a working sink.
C22_SinkFailureAbsorbed ==
    ret.done =>
        \E expected \in OutcomesWith(call, SinkAccepts) : SameOutcome(ret.result, expected)

\* ask got an answer, the sink raised on its record, and ask returned the answer
C22_Witness ==
    /\ ret.done /\ call.op = "ask" /\ call.sink.raises
    /\ AskRejection(call.question, call.doc_text) = None
    /\ Answered200(call.upstream)
    /\ ~ret.result.raised /\ ret.result.value = Strip(call.upstream.content)
    /\ ret.result.value # <<>>

-----------------------------------------------------------------------------
(* Claims about the PDF branch of the parser *)

\* C23: for a PDF the parser output is the text of every page in page order,
\* each page followed by a newline separator, so that a page yielding no text
\* contributes an empty line wherever it occurs (first, middle or last page).
C23_EveryPageThenNewline ==
    (/\ ret.done /\ call.op = "parse"
     /\ EndsWith(call.file_path, PdfSuffix) /\ ~call.file.fails) =>
        /\ ~ret.result.raised
        /\ ret.result.value = PdfPagesText(call.file.parts)

-----------------------------------------------------------------------------
(* Claims about EntityAgent.extract *)

EntityKeys == {"names", "dates", "organizations"}

\* the list has no value twice
NoRepeats(list) == Cardinality(Elements(list)) = Len(list)

\* s[i..e-1] is 1-2 digits, '-' or '/', 1-2 digits, '-' or '/', 2-4 digits,
\* with a word boundary before and after
DateToken(s, i, e) ==
    /\ WordBoundary(s, i) /\ WordBoundary(s, e)
    /\ \E a \in (i + 1)..(i + 2) : \E b \in (a + 2)..(a + 3) :
          /\ e - (b + 1) \in 2..4 /\ e <= Len(s) + 1
          /\ \A n \in (i..(a - 1)) \cup ((a + 1)..(b - 1)) \cup ((b + 1)..(e - 1)) :
                s[n] \in Digit
          /\ s[a] \in {"-", "/"} /\ s[b] \in {"-", "/"}

\* the date tokens of s as pairs of start and end
DateTokens(s) ==
    {p \in (1..Len(s)) \X (1..(Len(s) + 1)) : p[1] < p[2] /\ DateToken(s, p[1], p[2])}

\* extract has run twice on call.text
Extracted == ret.done /\ call.op = "extract"

\* C24: EntityAgent.extract is deterministic and de-duplicating: running it
\* twice on the same text yields, for each of names, dates and organizations,
\* the same set of values, and no result list contains the same string twice
\* even when the text contains the entity several times.
C24_ExtractSameSetNoRepeats ==
    Extracted =>
        \A k \in EntityKeys :
            /\ Elements(ret.first[k]) = Elements(ret.second[k])
            /\ NoRepeats(ret.first[k]) /\ NoRepeats(ret.second[k])

\* the text has a name, a date and an organization twice each; the two runs
\* list the two dates in different orders
C24_Witness ==
    /\ Extracted
    /\ \A k \in EntityKeys : Len(FindAll(k, call.text, 1)) > Len(ret.first[k])
    /\ ret.first["dates"] # ret.second["dates"]

-----------------------------------------------------------------------------
(* Claims about EntityAgent.validate_entities *)

\* validate_entities returns in this step
EntitiesChecked == <<call, ret>>' # <<call, ret>>

\* C26: EntityAgent.validate_entities(text, entities) is advisory only: it
\* never mutates the EntitySet passed to it and never changes any stored
\* document's entities; it only returns the model's verdict text or a failure
\* string, whatever the upstream outcome.
C26_EntityCheckAdvisory ==
    [][EntitiesChecked =>
        /\ documents_store' = documents_store
        /\ documents_store'[call'.doc_id].entities = call'.entities
        /\ ~ret'.result.raised
        /\ ret'.result.value =
              (IF Answered200(call'.upstream) THEN Strip(call'.upstream.content)
               ELSE IF call'.upstream.kind = "response" /\ call'.upstream.status_code # 200
                    THEN EntityValidationFailedHttp
                             \o DecimalStr(call'.upstream.status_code)
               ELSE IF call'.upstream.cls \in RequestExceptionClasses
                    THEN EntityValidationNetworkError \o call'.upstream.msg
               ELSE EntityValidationUnexpectedError \o call'.upstream.msg)]_vars

\* the model gave a verdict on the entities of a stored document, and the
\* document still has the names that were extracted at its upload
C26_Witness ==
    /\ ret.done /\ call.op = "entity_validate_entities"
    /\ Answered200(call.upstream) /\ ret.result.value # <<>>
    /\ documents_store[call.doc_id].entities.names # <<>>
    /\ documents_store[call.doc_id].entities = call.entities

-----------------------------------------------------------------------------
(* Claims about chunk_text *)

\* the loop of chunk_text runs one iteration in this step
ChunkIterated == ret # Pending /\ ret'.iterations = ret.iterations + 1

\* C27: chunk_text(text, chunk_size, overlap) terminates for every text and
\* every 0 <= overlap < chunk_size: the start position strictly advances on
\* each loop iteration, including when the last sentence or word boundary
\* found in the window lies fewer than overlap characters after start.
C27_StartAdvances ==
    [][ChunkIterated => ret'.start > ret.start]_vars

-----------------------------------------------------------------------------
(* Specification of the summaries that reach the store: uploads of a.pdf and *)
(* b.docx whose upstream answers with a summary that passes the gate, with   *)
(* "ok", with blank content or with a 500, and edits of the stored summary   *)

\* the upstream answers 200 with only white space: the summarizer returns
\* "No summary generated."
BlankUpstream == Response(200, <<>>, "chat", <<" ", "\n">>, "", <<>>)

GateUpstreams ==
    {u \in ApiUpstreams : u.kind = "response"} \cup {BlankUpstream}

GateNext ==
    \/ \E r \in Reqs : UploadReceiveOf(r, PlainUploads)
    \/ \E r \in Reqs : UploadProcessWith(r, GateUpstreams)
    \/ \E r \in Reqs : UpdateSummary(r)

SpecGate == Init /\ [][GateNext]_vars

-----------------------------------------------------------------------------
(* Claims about the publication of a record *)

RecordFields == {"filename", "text", "summary", "entities"}

\* the summary is one the gate lets through, or the rollback message
GatedSummary(summary) == ValidateSummary(summary) \/ summary = RollbackSummary

\* the entities are an EntitySet the gate lets through, or the rollback record
GatedEntities(entities) ==
    IF DOMAIN entities = {"error"} THEN entities.error = RollbackEntities
    ELSE DOMAIN entities = EntityKeys /\ ValidateEntities(entities)

\* slot r answers a get_summary, update_summary or ask_question in this step
DocumentAnswered(r) ==
    Answers(r) /\ req'[r].op \in {"get_summary", "update_summary", "ask_question"}

\* C28: a document record is published atomically: in every reachable state
\* every entry of documents_store has all four fields, and under any
\* interleaving of an in-flight upload with get_summary, update_summary or
\* ask_question requests the new doc_id is either absent (404) or present
\* with its final gated summary and entities, never with a pre-rollback or
\* partial value.
C28_PublishedWhole ==
    /\ [](\A d \in DOMAIN documents_store :
            /\ DOMAIN documents_store[d] = RecordFields
            /\ GatedSummary(documents_store[d].summary)
                  \/ documents_store[d].summary \in UpdatedSummaries
            /\ GatedEntities(documents_store[d].entities))
    /\ [](\A r \in Writers :
            pc[r] = "reading" => req[r].doc_id \notin DOMAIN documents_store)
    /\ [][\A r \in Writers :
            UploadStored(r) =>
                LET doc == documents_store'[req[r].doc_id]
                IN  /\ doc.summary = GateSummary(req'[r].summarizer_output).summary
                    /\ doc.entities = GateEntities(req'[r].extracted).entities
                    /\ doc.summary = resp'[r].body.summary
                    /\ doc.entities = resp'[r].body.entities]_vars
    /\ [][\A r \in Writers :
            DocumentAnswered(r) =>
                IF req'[r].doc_id \in DOMAIN documents_store
                THEN /\ resp'[r].status_code = 200
                     /\ req'[r].op = "get_summary" =>
                           /\ resp'[r].body.summary =
                                 documents_store[req'[r].doc_id].summary
                           /\ GatedSummary(resp'[r].body.summary)
                                 \/ resp'[r].body.summary \in UpdatedSummaries
                ELSE resp'[r].status_code = 404]_vars

\* while an upload is in flight a get_summary for its doc_id was answered 404,
\* and a document stored before has the rollback message as its summary
C28_Witness ==
    \E r \in Writers, w \in Writers :
        /\ pc[r] = "reading"
        /\ pc[w] = "done" /\ req[w].op = "get_summary"
        /\ req[w].doc_id = req[r].doc_id /\ resp[w].status_code = 404
        /\ \E d \in DOMAIN documents_store : documents_store[d].summary = RollbackSummary

-----------------------------------------------------------------------------
(* Claims about the reach of the quality gate *)

\* the summary of document d is written in this step
SummaryWritten(d) ==
    /\ d \in DOMAIN documents_store'
    /\ d \in DOMAIN documents_store =>
          documents_store'[d].summary # documents_store[d].summary

\* C29: the quality gate covers every summary that upload persists but not
\* summary edits: at the moment upload stores a record its summary passes
\* validate_summary (the rollback message itself has more than 5 tokens, so
\* sentinels such as "No summary generated." are never stored by upload), and
\* a stored summary that fails validate_summary was written by
\* update_summary, which stores the submitted string verbatim.
C29_GateCoversUploadsNotEdits ==
    /\ [](WordStarts(RollbackSummary) > 5 /\ ~ValidateSummary(NoSummaryGenerated))
    /\ [][\A r \in Reqs :
            UploadStored(r) =>
                /\ ValidateSummary(documents_store'[req'[r].doc_id].summary)
                /\ documents_store'[req'[r].doc_id].summary # NoSummaryGenerated]_vars
    /\ [][\A d \in DocIds :
            (SummaryWritten(d) /\ ~ValidateSummary(documents_store'[d].summary)) =>
                \E r \in Reqs :
                    /\ UpdateApplied(r) /\ req'[r].doc_id = d
                    /\ documents_store'[d].summary = req'[r].updated_summary]_vars

\* an upload whose summarizer returned "No summary generated." stored the
\* rollback message, beside a document whose edited summary fails
\* validate_summary
C29_Witness ==
    \E r \in Reqs :
        /\ pc[r] = "done" /\ req[r].op = "upload" /\ resp[r].status_code = 200
        /\ req[r].summarizer_output = NoSummaryGenerated
        /\ documents_store[req[r].doc_id].summary = RollbackSummary
        /\ \E d \in DOMAIN documents_store :
              ~ValidateSummary(documents_store[d].summary)

-----------------------------------------------------------------------------
(* Claims about requests for a document that is not stored *)

DocumentOps == {"get_summary", "update_summary", "ask_question", "save_document"}

\* slot r answers, in this step, a request for a doc_id that is not stored
AbsentAnswered(r) ==
    /\ Answers(r) /\ req'[r].op \in DocumentOps
    /\ req'[r].doc_id \notin DOMAIN documents_store

\* C30: for a doc_id that is not in documents_store, get_summary,
\* update_summary, ask_question and save_document each fail with a 404
\* "Document not found" error, make no upstream language-model call, and leave
\* documents_store unchanged (update_summary does not create a record).
C30_AbsentDocumentIs404 ==
    [][\A r \in Reqs :
        AbsentAnswered(r) =>
            /\ resp'[r].status_code = 404
            /\ resp'[r].body.message = DocumentNotFound
            /\ resp'[r].body.type = "http_error"
            /\ calls'[r] = <<>>
            /\ documents_store' = documents_store
            /\ req'[r].doc_id \notin DOMAIN documents_store']_vars

\* beside a stored document, a blank question about a doc_id that is not
\* stored was answered 404 without a call
C30_Witness ==
    \E r \in Reqs :
        /\ pc[r] = "done" /\ req[r].op = "ask_question" /\ req[r].question = <<>>
        /\ documents_store # << >>
        /\ req[r].doc_id \notin DOMAIN documents_store
        /\ resp[r].status_code = 404 /\ calls[r] = <<>>

====
